---- MODULE Spec2Model ----
(***************************************************************************)
(* bolt11-forge: the bech32 5-bit codec (src/src/bech32.rs), the forging   *)
(* invoice encoder (src/src/invoice.rs, src/src/main.rs) and the BOLT11    *)
(* encoder/decoder (src/src/bolt11.rs).                                    *)
(*                                                                         *)
(* Strings are sequences of character codes, byte vectors are sequences   *)
(* of 0..255, symbol vectors are sequences of the u8 a U5Bits holds.      *)
(* A u32 is kept as two 16-bit halves [hi, lo] so that a left shift loses  *)
(* exactly the bits the machine loses; a u64 is kept as its 8 big-endian   *)
(* bytes.                                                                  *)
(***************************************************************************)
EXTENDS Integers, Sequences, FiniteSets, TLC

VARIABLES bits, sym, chk, fld, inv, addr, wire, enc, dec, pc, conv, scan

vars == <<bits, sym, chk, fld, inv, addr, wire, enc, dec, pc, conv, scan>>

\* ------------------------------------------------------------------ bounds

\* longest byte vector handed to the bit packer
MaxLen == 6

\* ------------------------------------------------------- integer helpers

RECURSIVE Pow2(_)
Pow2(n) == IF n = 0 THEN 1 ELSE 2 * Pow2(n - 1)

\* x >> n on a value that fits the model's integers
Shr(x, n) == x \div Pow2(n)

\* x & (2^n - 1)
LowBits(x, n) == x % Pow2(n)

Repeat(v, n) == [i \in 1..n |-> v]

RECURSIVE SeqsUpTo(_, _)
SeqsUpTo(S, n) ==
    IF n = 0 THEN {<<>>}
    ELSE LET shorter == SeqsUpTo(S, n - 1)
         IN shorter \cup {Append(s, x) : s \in {t \in shorter : Len(t) = n - 1}, x \in S}

\* ----------------------------------------------------------- u32 register

U32Zero == [hi |-> 0, lo |-> 0]

\* (acc << k) | v on a u32, for 0 < k < 16 and v < 2^k: the top k bits fall off
U32ShlOr(acc, k, v) ==
    [hi |-> LowBits(acc.hi, 16 - k) * Pow2(k) + Shr(acc.lo, 16 - k),
     lo |-> LowBits(acc.lo, 16 - k) * Pow2(k) + v]

\* the low 16 bits of acc >> k, for 0 <= k < 16
U32ShrLow(acc, k) == LowBits(acc.hi, k) * Pow2(16 - k) + Shr(acc.lo, k)

\* ------------------------------------------------------------ loops

\* `for i in lo..=hi { st = body(st, i) }`. The range is split in halves and
\* the first half's result is a value before the second half starts, so that
\* the evaluation stays shallow on long inputs.
RECURSIVE FoldRange(_, _, _, _)
FoldRange(body(_, _), lo, hi, st) ==
    IF lo > hi THEN st
    ELSE IF lo = hi THEN body(st, lo)
    ELSE CHOOSE right \in
             {FoldRange(body, ((lo + hi) \div 2) + 1, hi, left) :
                 left \in {FoldRange(body, lo, (lo + hi) \div 2, st)}} : TRUE

\* `let v = x; F(v)`: x is computed once, before F reads it
With(x, F(_)) == CHOOSE r \in {F(v) : v \in {x}} : TRUE

\* ------------------------------------------------- bech32.rs: the bit packer

\* the inner `while bits >= 5` loop of bytes_to_u5_bits
RECURSIVE Drain5(_, _, _)
Drain5(acc, nbits, result) ==
    IF nbits >= 5
    THEN Drain5(acc, nbits - 5, Append(result, LowBits(U32ShrLow(acc, nbits - 5), 5)))
    ELSE [acc |-> acc, nbits |-> nbits, result |-> result]

\* the `for &byte in data` loop of bytes_to_u5_bits
B2ULoop(data) ==
    With(data, LAMBDA d :
        LET body(st, i) == Drain5(U32ShlOr(st.acc, 8, d[i]), st.nbits + 8, st.result)
        IN FoldRange(body, 1, Len(d), [acc |-> U32Zero, nbits |-> 0, result |-> <<>>]))

\* the flush after the loop without the left shift: the leftover bits right-aligned
bytes_to_u5_bits_rightaligned(data) ==
    With(B2ULoop(data), LAMBDA l :
        IF l.nbits > 0
        THEN Append(l.result, LowBits(U32ShrLow(l.acc, 0), l.nbits))
        ELSE l.result)

bytes_to_u5_bits(data) ==
    With(B2ULoop(data), LAMBDA l :
        IF l.nbits > 0
        THEN Append(l.result,
                    LowBits(U32ShrLow(U32ShlOr(l.acc, 5 - l.nbits, 0), 0), 5))
        ELSE l.result)

\* the inner `while bits >= 8` loop of u5_bits_to_bytes
RECURSIVE Drain8(_, _, _)
Drain8(acc, nbits, result) ==
    IF nbits >= 8
    THEN Drain8(acc, nbits - 8, Append(result, LowBits(U32ShrLow(acc, nbits - 8), 8)))
    ELSE [acc |-> acc, nbits |-> nbits, result |-> result]

u5_bits_to_bytes(data) ==
    With(data, LAMBDA d :
        LET body(st, i) == Drain8(U32ShlOr(st.acc, 5, d[i]), st.nbits + 5, st.result)
        IN FoldRange(body, 1, Len(d), [acc |-> U32Zero, nbits |-> 0, result |-> <<>>]).result)

\* --------------------------------------------------- bech32.rs: U5Bits

CHARSET ==
    <<113, 112, 122, 114, 121, 57, 120, 56, 103, 102, 50, 116, 118, 100, 119, 48,
      115, 51, 106, 110, 53, 52, 107, 104, 99, 101, 54, 109, 117, 97, 55, 108>>

None == [some |-> FALSE, v |-> 0]

Some(x) == [some |-> TRUE, v |-> x]

\* None of an Option whose value is a byte vector
NoBytes == [some |-> FALSE, v |-> <<>>]

\* U5Bits::new that wraps whatever it is given
U5Bits_new_nocheck(value) == Some(value)

U5Bits_new(value) == IF value <= 31 THEN Some(value) ELSE None

U5Bits_try_from(value) == IF value <= 31 THEN Some(value) ELSE None

U5Bits_new_unchecked(value) == Some(value)

\* CHARSET.iter().position(..): the 0-based index of the first match
U5Bits_from_char(c) ==
    IF \E i \in 1..Len(CHARSET) : CHARSET[i] = c
    THEN Some((CHOOSE i \in 1..Len(CHARSET) :
                  CHARSET[i] = c /\ \A j \in 1..(i - 1) : CHARSET[j] # c) - 1)
    ELSE None

U5Bits_to_char(v) == CHARSET[v + 1]

\* ------------------------------------------------ bech32.rs: the checksum

RECURSIVE XorBits(_, _, _)
XorBits(a, b, n) ==
    IF n = 0 THEN 0
    ELSE (((a % 2) + (b % 2)) % 2) + 2 * XorBits(a \div 2, b \div 2, n - 1)

\* a ^ b on 5-bit values, tabulated
Xor5 == [a \in 0..31 |-> [b \in 0..31 |-> XorBits(a, b, 5)]]

RECURSIVE XorChunks(_, _, _)
XorChunks(a, b, n) ==
    IF n = 0 THEN 0
    ELSE Xor5[a % 32][b % 32] + 32 * XorChunks(a \div 32, b \div 32, n - 1)

\* a ^ b on values below 2^30
Xor(a, b) == XorChunks(a, b, 6)

GEN == <<996825010, 642813549, 513874426, 1027748829, 705979059>>

\* `for i in 0..5 { if (top >> i) & 1 == 1 { chk ^= GEN[i] } }`
RECURSIVE GenLoop(_, _, _)
GenLoop(c, top, i) ==
    IF i = 5 THEN c
    ELSE GenLoop(IF LowBits(Shr(top, i), 1) = 1 THEN Xor(c, GEN[i + 1]) ELSE c,
                 top, i + 1)

\* one turn of the `for &value in values` loop of bech32_polymod
polymod_step(c, value) ==
    With(c, LAMBDA chk0 :
        GenLoop(Xor(LowBits(chk0, 25) * 32, value), Shr(chk0, 25), 0))

\* the shift register without the generator feedback
bech32_polymod_nofeedback(values) ==
    With(values, LAMBDA v :
        LET body(c, k) == Xor(LowBits(c, 25) * 32, v[k])
        IN FoldRange(body, 1, Len(v), 1))

bech32_polymod(values) ==
    With(values, LAMBDA v :
        LET body(c, k) == polymod_step(c, v[k])
        IN FoldRange(body, 1, Len(v), 1))

\* the values bech32_checksum feeds to the polymod ahead of the data
hrp_values(hrp) ==
    [i \in 1..Len(hrp) |-> U5Bits_new(Shr(hrp[i] % 256, 5)).v]
    \o <<U5Bits_new(0).v>>
    \o [i \in 1..Len(hrp) |-> U5Bits_new(LowBits(hrp[i] % 256, 5)).v]

\* the checksum taken from the polymod as it is, without the final ^ 1
bech32_checksum_noxor(hrp, data) ==
    With(bech32_polymod(hrp_values(hrp) \o data \o Repeat(0, 6)), LAMBDA polymod :
        [i \in 1..6 |-> LowBits(Shr(polymod, 5 * (5 - (i - 1))), 5)])

bech32_checksum(hrp, data) ==
    With(Xor(bech32_polymod(hrp_values(hrp) \o data \o Repeat(U5Bits_new(0).v, 6)), 1),
         LAMBDA polymod :
        [i \in 1..6 |-> U5Bits_new(LowBits(Shr(polymod, 5 * (5 - (i - 1))), 5)).v])

\* the string without the separator between prefix and payload
bech32_encode_nosep(hrp, data) ==
    With(data \o bech32_checksum(hrp, data), LAMBDA all :
        hrp \o [i \in 1..Len(all) |-> U5Bits_to_char(all[i])])

bech32_encode(hrp, data) ==
    With(data \o bech32_checksum(hrp, data), LAMBDA all :
        hrp \o <<49>> \o [i \in 1..Len(all) |-> U5Bits_to_char(all[i])])

\* ------------------------------------------- invoice.rs: TaggedField

\* the result of a call that may panic on an `unwrap()`
Panic == [panic |-> TRUE, out |-> <<>>]

Done(out) == [panic |-> FALSE, out |-> out]

\* TaggedField::encode with the length taken in bytes instead of 5-bit groups
TaggedField_encode_bytelen(tag, data) ==
    With(bytes_to_u5_bits(data), LAMBDA data_u5 :
        LET t == U5Bits_new(tag)
            length == Len(data)
            hi == U5Bits_new(LowBits(Shr(length, 5), 5))
            lo == U5Bits_new(LowBits(length, 5))
        IN IF ~t.some \/ ~hi.some \/ ~lo.some THEN Panic
           ELSE Done(<<t.v, hi.v, lo.v>> \o data_u5))

\* TaggedField::encode of invoice.rs
TaggedField_encode(tag, data) ==
    With(bytes_to_u5_bits(data), LAMBDA data_u5 :
        LET t == U5Bits_new(tag)
            length == Len(data_u5)
            hi == U5Bits_new(LowBits(Shr(length, 5), 5))
            lo == U5Bits_new(LowBits(length, 5))
        IN IF ~t.some \/ ~hi.some \/ ~lo.some THEN Panic
           ELSE Done(<<t.v, hi.v, lo.v>> \o data_u5))

\* ---------------------------------------------- main.rs: TaggedField

\* TaggedField::encode_with_padding of main.rs
TaggedField_encode_with_padding(tag, data, add_padding) ==
    With(bytes_to_u5_bits(data), LAMBDA data_u5 :
        LET t == U5Bits_new(tag)
            length == IF add_padding /\ Len(data_u5) > 0 THEN Len(data_u5) + 1
                      ELSE Len(data_u5)
            hi == U5Bits_new(LowBits(Shr(length, 5), 5))
            lo == U5Bits_new(LowBits(length, 5))
            zero == IF add_padding /\ data_u5 # <<>> THEN <<U5Bits_new(0).v>> ELSE <<>>
        IN IF ~t.some \/ ~hi.some \/ ~lo.some THEN Panic
           ELSE Done(<<t.v, hi.v, lo.v>> \o zero \o data_u5))

\* ------------------------------------- invoice.rs, main.rs: Invoice

\* the elements of a finite set of numbers in ascending order
RECURSIVE SortedSeq(_)
SortedSeq(S) ==
    IF S = {} THEN <<>>
    ELSE LET m == CHOOSE x \in S : \A y \in S : x <= y
         IN <<m>> \o SortedSeq(S \ {m})

\* the largest element of a non-empty sequence of numbers
SeqMax(q) == CHOOSE x \in {q[i] : i \in 1..Len(q)} : \A i \in 1..Len(q) : q[i] <= x

\* byte | (1 << k) on a u8
OrBit(byte, k) == IF Shr(byte, k) % 2 = 1 THEN byte ELSE byte + Pow2(k)

\* n.to_string()
RECURSIVE to_string(_)
to_string(n) ==
    IF n < 10 THEN <<48 + n>> ELSE to_string(n \div 10) \o <<48 + (n % 10)>>

\* Invoice::encode_features of invoice.rs: features is the Vec<u8> of indices
encode_features(features) ==
    IF features = <<>> THEN <<>>
    ELSE LET max_feature == SeqMax(features)
             num_bytes == ((max_feature \div 8) + 1) % 256
             body(bytes, i) ==
                 LET byte_idx == features[i] \div 8
                     bit_idx == features[i] % 8
                 IN IF byte_idx < Len(bytes)
                    THEN [bytes EXCEPT ![num_bytes - byte_idx] = OrBit(@, bit_idx)]
                    ELSE bytes
         IN FoldRange(body, 1, Len(features), Repeat(0, num_bytes))

\* Invoice::encode_features of main.rs: features is the HashMap<u8, bool>,
\* walked here in ascending key order (the bytes do not depend on the order)
encode_features_map(features) ==
    IF DOMAIN features = {} THEN <<>>
    ELSE LET keys == SortedSeq(DOMAIN features)
             max_feature == SeqMax(keys)
             num_bytes == ((max_feature \div 8) + 1) % 256
             body(bytes, i) ==
                 LET byte_idx == keys[i] \div 8
                     bit_idx == keys[i] % 8
                 IN IF features[keys[i]] /\ byte_idx < Len(bytes)
                    THEN [bytes EXCEPT ![num_bytes - byte_idx] = OrBit(@, bit_idx)]
                    ELSE bytes
         IN FoldRange(body, 1, Len(keys), Repeat(0, num_bytes))

\* Invoice::format_amount of invoice.rs, format_amount of main.rs
format_amount(amount_msat) ==
    IF ~amount_msat.some THEN <<>>
    ELSE IF amount_msat.v % 1000 = 0
         THEN LET sats == amount_msat.v \div 1000
              IN IF sats % 1000000 = 0 THEN to_string(sats \div 1000000) \o <<109>>
                 ELSE IF sats % 1000 = 0 THEN to_string(sats \div 1000) \o <<117>>
                 ELSE to_string(sats) \o <<110>>
         ELSE to_string(amount_msat.v) \o <<112>>

\* the 7 leading payload symbols of Invoice::encode, taken from the u64's
\* big-endian bytes (a u64 is its 8 big-endian bytes here)
invoice_timestamp(timestamp) ==
    SubSeq(bytes_to_u5_bits(SubSeq(timestamp, 4, 8)), 1, 7)

\* the message Invoice::calculate_signature hashes
sign_data(hrp, data) ==
    LET raw == hrp \o u5_bits_to_bytes(data)
    IN raw \o Repeat(0, (8 - (Len(raw) % 8)) % 8)

\* sha256 and sign_ecdsa_recoverable, uninterpreted: 64 compact bytes and a
\* recovery id that are a fixed function of the key and the message
Sign(key, msg) ==
    With(msg, LAMBDA m :
        [i \in 1..65 |->
            IF i = 65 THEN (key + Len(m)) % 2
            ELSE (key * 7 + Len(m) * 31 + m[((i - 1) % Len(m)) + 1] + i) % 256])

\* the key calculate_signature hard-codes
ForgeKey == 1

\* Invoice::calculate_signature: the 104 symbols of the 65 signature bytes
calculate_signature(hrp, data) == bytes_to_u5_bits(Sign(ForgeKey, sign_data(hrp, data)))

\* the fields Invoice::encode always emits: p, s and d
FixedFields(iv) ==
    TaggedField_encode(1, iv.payment_hash).out
    \o TaggedField_encode(16, iv.payment_secret).out
    \o TaggedField_encode(13, iv.description).out

\* the optional x and c fields
TailFields(iv) ==
    (IF iv.expiry.some THEN TaggedField_encode(6, iv.expiry.v).out ELSE <<>>)
    \o (IF iv.min_final_cltv_expiry.some
        THEN TaggedField_encode(24, iv.min_final_cltv_expiry.v).out ELSE <<>>)

\* Invoice::encode of invoice.rs up to the signature: the payload
Invoice_payload(iv) ==
    invoice_timestamp(iv.timestamp)
    \o FixedFields(iv)
    \o (IF iv.features # <<>>
        THEN TaggedField_encode(5, encode_features(iv.features)).out ELSE <<>>)
    \o TailFields(iv)

\* Invoice::encode of main.rs up to the signature
Invoice_payload_main(iv, non_minimal_features) ==
    invoice_timestamp(iv.timestamp)
    \o TaggedField_encode_with_padding(1, iv.payment_hash, FALSE).out
    \o TaggedField_encode_with_padding(16, iv.payment_secret, FALSE).out
    \o TaggedField_encode_with_padding(13, iv.description, FALSE).out
    \o (IF DOMAIN iv.features # {} \/ non_minimal_features
        THEN TaggedField_encode_with_padding(5, encode_features_map(iv.features),
                                             non_minimal_features).out
        ELSE <<>>)
    \o (IF iv.expiry.some
        THEN TaggedField_encode_with_padding(6, iv.expiry.v, FALSE).out ELSE <<>>)
    \o (IF iv.min_final_cltv_expiry.some
        THEN TaggedField_encode_with_padding(24, iv.min_final_cltv_expiry.v, FALSE).out
        ELSE <<>>)

Invoice_hrp(iv, network) == <<108, 110>> \o network \o format_amount(iv.amount_msat)

\* ------------------------------ the bit packer bolt11.rs imports (convert_bits)

Ok(out) == [ok |-> TRUE, err |-> "", out |-> out]

Err(e) == [ok |-> FALSE, err |-> e, out |-> <<>>]

\* the `while bits >= to_bits` loop of the packer
RECURSIVE DrainTo(_, _, _, _)
DrainTo(acc, nbits, to_bits, result) ==
    IF nbits >= to_bits
    THEN DrainTo(acc, nbits - to_bits, to_bits,
                 Append(result, LowBits(Shr(acc, nbits - to_bits), to_bits)))
    ELSE [acc |-> acc, nbits |-> nbits, result |-> result, bad |-> FALSE]

\* repack(data, from_bits, to_bits, pad)
convert_bits(data, from_bits, to_bits, pad) ==
    With(data, LAMBDA d :
        LET body(st, i) ==
                IF st.bad \/ d[i] >= Pow2(from_bits) THEN [st EXCEPT !.bad = TRUE]
                ELSE DrainTo(LowBits(st.acc * Pow2(from_bits) + d[i], from_bits + to_bits - 1),
                             st.nbits + from_bits, to_bits, st.result)
        IN With(FoldRange(body, 1, Len(d),
                          [acc |-> 0, nbits |-> 0, result |-> <<>>, bad |-> FALSE]),
                LAMBDA l :
                    LET rest == LowBits(l.acc * Pow2(to_bits - l.nbits), to_bits)
                    IN IF l.bad THEN Err("InvalidInputValue")
                       ELSE IF pad
                            THEN Ok(IF l.nbits > 0 THEN Append(l.result, rest) ELSE l.result)
                            ELSE IF l.nbits >= from_bits \/ rest # 0 THEN Err("InvalidPadding")
                                 ELSE Ok(l.result)))

\* ------------------------------------------------ bolt11.rs: tagged_field

\* CHARSET.find(c): the 0-based index of the character in the alphabet
CharsetFind(c) == U5Bits_from_char(c)

tagged_field(tag, data) ==
    With(convert_bits(data, 8, 5, TRUE), LAMBDA data_5bit :
        LET tag_val == CharsetFind(tag)
            length == Len(data_5bit.out)
        IN IF ~tag_val.some THEN Err("Invalid tag character")
           ELSE IF ~data_5bit.ok THEN data_5bit
           ELSE Ok(<<tag_val.v % 256, (length \div 32) % 256, (length % 32) % 256>>
                   \o data_5bit.out))

\* ----------------------------------------------- bolt11.rs: the timestamp

\* (date >> i) & 1 on a u64 held as 8 big-endian bytes
BitOf(date, i) == Shr(date[8 - (i \div 8)], i % 8) % 2

\* (date << 1) | bit on a u64 held as 8 big-endian bytes
U64ShlOr(date, bit) ==
    [k \in 1..8 |-> ((date[k] * 2) % 256) + (IF k < 8 THEN date[k + 1] \div 128 ELSE bit)]

\* invoice_encode: bits 34..0 of the date, repacked into 5-bit groups
encode_timestamp(date) == convert_bits([k \in 1..35 |-> BitOf(date, 35 - k)], 1, 5, TRUE)

\* invoice_decode: the date rebuilt from the first 7 payload symbols
decode_timestamp(timestamp_5bit) ==
    With(convert_bits(timestamp_5bit, 5, 1, FALSE), LAMBDA timestamp_bits :
        LET body(date, i) == IF i > 35 THEN date ELSE U64ShlOr(date, timestamp_bits.out[i])
        IN IF ~timestamp_bits.ok THEN timestamp_bits
           ELSE Ok(FoldRange(body, 1, Len(timestamp_bits.out), Repeat(0, 8))))

\* ------------------------------- the codec bolt11.rs imports (Bech32)

\* expand_prefix: the high 3 bits of each character, a zero, the low 5 bits
expand_prefix(prefix) ==
    [i \in 1..Len(prefix) |-> Shr(prefix[i], 5)]
    \o <<0>>
    \o [i \in 1..Len(prefix) |-> LowBits(prefix[i], 5)]

\* create_checksum: polymod(expand ++ data ++ six zeros) ^ 1 in six groups
create_checksum(prefix, data) ==
    With(Xor(bech32_polymod(expand_prefix(prefix) \o data \o Repeat(0, 6)), 1),
         LAMBDA polymod : [i \in 1..6 |-> LowBits(Shr(polymod, 5 * (6 - i)), 5)])

verify_checksum(prefix, data) == bech32_polymod(expand_prefix(prefix) \o data) = 1

\* Bech32::encode(prefix, data)
Bech32_encode(prefix, data) ==
    With(data \o create_checksum(prefix, data), LAMBDA all :
        prefix \o <<49>> \o [i \in 1..Len(all) |-> CHARSET[all[i] + 1]])

IsLower(c) == c >= 97 /\ c <= 122
IsUpper(c) == c >= 65 /\ c <= 90
ToLower(c) == IF IsUpper(c) THEN c + 32 ELSE c

DecodeErr(e) == [ok |-> FALSE, err |-> e, hrp |-> <<>>, data |-> <<>>]

\* Bech32::decode(string)
Bech32_decode(string) ==
    With([i \in 1..Len(string) |-> ToLower(string[i])], LAMBDA lower :
        LET n == Len(lower)
            seps == {i \in 1..n : lower[i] = 49}
            sep == CHOOSE i \in seps : \A j \in seps : j <= i
        IN IF \E i \in 1..n : string[i] < 33 \/ string[i] > 126
           THEN DecodeErr("InvalidCharacter")
           ELSE IF (\E i \in 1..n : IsLower(string[i])) /\ (\E i \in 1..n : IsUpper(string[i]))
           THEN DecodeErr("MixedCase")
           ELSE IF seps = {} THEN DecodeErr("NoSeparator")
           ELSE IF sep = 1 \/ n - sep < 6 THEN DecodeErr("InvalidSeparatorPosition")
           ELSE With([i \in 1..(n - sep) |-> U5Bits_from_char(lower[sep + i])],
                     LAMBDA symbols :
                LET prefix == SubSeq(lower, 1, sep - 1)
                    data == [i \in 1..Len(symbols) |-> symbols[i].v]
                IN IF \E i \in 1..Len(symbols) : ~symbols[i].some
                   THEN DecodeErr("InvalidCharacterInData")
                   ELSE IF ~verify_checksum(prefix, data) THEN DecodeErr("InvalidChecksum")
                   ELSE [ok |-> TRUE, err |-> "", hrp |-> prefix,
                         data |-> SubSeq(data, 1, Len(data) - 6)]))

\* ------------------------------------------------- bolt11.rs: the amount

\* an f64 amount is the decimal m * 10^e
RECURSIVE Pow10(_)
Pow10(n) == IF n = 0 THEN 1 ELSE 10 * Pow10(n - 1)

Amount(m, e) == [m |-> m, e |-> e]

\* (amount * 1e12) % 10.0 != 0.0
TooManyDecimals(amount) ==
    -(amount.e + 11) > 0 /\ amount.m % Pow10(-(amount.e + 11)) # 0

\* (amount * 1e12) as u64, kept as the decimal m * 10^k with k >= 0
PicoOf(amount) ==
    IF amount.e + 12 >= 0 THEN [m |-> amount.m, k |-> amount.e + 12]
    ELSE [m |-> amount.m \div Pow10(-(amount.e + 12)), k |-> 0]

\* the `for unit in units` loop of shorten_amount: amount /= 1000 while
\* amount % 1000 == 0, at most once per unit p, n, u, m
RECURSIVE ShortenLoop(_, _)
ShortenLoop(amount, unit) ==
    IF unit > 4 THEN amount
    ELSE IF amount.k >= 3 THEN ShortenLoop([amount EXCEPT !.k = @ - 3], unit + 1)
    ELSE IF (amount.m * Pow10(amount.k)) % 1000 = 0
    THEN ShortenLoop([m |-> (amount.m * Pow10(amount.k)) \div 1000, k |-> 0], unit + 1)
    ELSE amount

\* shorten_amount: the last unit of the table is ' ', so no suffix is written
shorten_amount(amount) ==
    LET short == ShortenLoop(PicoOf(amount), 1)
    IN IF short.m = 0 THEN <<48>> ELSE to_string(short.m) \o Repeat(48, short.k)

IsDigit(c) == c >= 48 /\ c <= 57

\* caps[1].parse() of a digit string
RECURSIVE ParseDigits(_)
ParseDigits(q) ==
    IF q = <<>> THEN 0 ELSE 10 * ParseDigits(SubSeq(q, 1, Len(q) - 1)) + (q[Len(q)] - 48)

\* unshorten_amount: ^(\d+)([pnum]?)$
unshorten_amount(amount) ==
    LET n == Len(amount)
        unit == IF n > 0 /\ amount[n] \in {112, 110, 117, 109} THEN amount[n] ELSE 0
        digits == IF unit = 0 THEN amount ELSE SubSeq(amount, 1, n - 1)
    IN IF digits = <<>> \/ \E i \in 1..Len(digits) : ~IsDigit(digits[i])
       THEN Err("Invalid amount format")
       ELSE Ok(Amount(ParseDigits(digits),
                      CASE unit = 112 -> -12 [] unit = 110 -> -9 [] unit = 117 -> -6
                        [] unit = 109 -> -3 [] OTHER -> 0))

\* ^([a-z]+)(.*)$ on the prefix after "ln": the length of the first capture,
\* 0 when the pattern does not match
CurrencyLen(amount_part) ==
    IF amount_part = <<>> \/ ~IsLower(amount_part[1]) THEN 0
    ELSE CHOOSE k \in 1..Len(amount_part) :
            /\ \A i \in 1..k : IsLower(amount_part[i])
            /\ k = Len(amount_part) \/ ~IsLower(amount_part[k + 1])

\* String::from_utf8(bytes).is_ok(), scanning from position i
RECURSIVE ValidUtf8(_, _)
ValidUtf8(b, i) ==
    LET n == Len(b)
        cont(k) == k <= n /\ b[k] >= 128 /\ b[k] <= 191
    IN IF i > n THEN TRUE
       ELSE IF b[i] < 128 THEN ValidUtf8(b, i + 1)
       ELSE IF b[i] >= 194 /\ b[i] <= 223 THEN cont(i + 1) /\ ValidUtf8(b, i + 2)
       ELSE IF b[i] >= 224 /\ b[i] <= 239
       THEN /\ cont(i + 1) /\ cont(i + 2)
            /\ (b[i] = 224 => b[i + 1] >= 160)
            /\ (b[i] = 237 => b[i + 1] <= 159)
            /\ ValidUtf8(b, i + 3)
       ELSE IF b[i] >= 240 /\ b[i] <= 244
       THEN /\ cont(i + 1) /\ cont(i + 2) /\ cont(i + 3)
            /\ (b[i] = 240 => b[i + 1] >= 144)
            /\ (b[i] = 244 => b[i + 1] <= 143)
            /\ ValidUtf8(b, i + 4)
       ELSE FALSE

\* ------------------------------------------ bolt11.rs: invoice_encode

NoAmount == [some |-> FALSE, v |-> Amount(0, 0)]

\* InvoiceBolt11::new() at the clock reading `date`
InvoiceBolt11_new(date) ==
    [currency |-> <<98, 99>>, amount |-> NoAmount, date |-> date,
     paymenthash |-> <<>>, tags |-> <<>>, signature |-> NoBytes, pubkey |-> None]

Tag(c, data) == [tag |-> c, data |-> data]

\* add_expiry: the base-32 digits of the expiry, most significant first
RECURSIVE ExpiryDigits(_)
ExpiryDigits(exp) ==
    IF exp = 0 THEN <<>> ELSE Append(ExpiryDigits(exp \div 32), exp % 32)

DuplicateTag(c) ==
    CASE c = 100 -> "Duplicate 'd' tag" [] c = 104 -> "Duplicate 'h' tag"
      [] c = 110 -> "Duplicate 'n' tag" [] OTHER -> "Duplicate 'x' tag"

\* a duplicate check that never fires
is_duplicate_never(tag_char, tags_set) == FALSE

\* the duplicate check at the head of the tag loop
is_duplicate(tag_char, tags_set) ==
    tag_char \in {100, 104, 110, 120} /\ tag_char \in tags_set

\* the `for (tag_char, tag_data) in &addr.tags` loop, from the i-th tag on
RECURSIVE TagLoop(_, _, _, _)
TagLoop(tags, i, data_5bit, tags_set) ==
    IF i > Len(tags) THEN [err |-> "", data |-> data_5bit, tags_set |-> tags_set]
    ELSE IF is_duplicate(tags[i].tag, tags_set)
    THEN [err |-> DuplicateTag(tags[i].tag), data |-> data_5bit, tags_set |-> tags_set]
    ELSE IF tags[i].tag \notin {100, 104, 120}
    THEN [err |-> "Unknown tag", data |-> data_5bit, tags_set |-> tags_set]
    ELSE LET tag_field == tagged_field(tags[i].tag, tags[i].data)
         IN IF ~tag_field.ok
            THEN [err |-> tag_field.err, data |-> data_5bit, tags_set |-> tags_set]
            ELSE TagLoop(tags, i + 1, data_5bit \o tag_field.out,
                         tags_set \cup {tags[i].tag})

\* a description check that lets every tag set through
description_check_lenient(tags_set) == ""

\* the two checks on 'd' and 'h' after the tag loop
description_check(tags_set) ==
    IF 100 \notin tags_set /\ 104 \notin tags_set THEN "Must include either 'd' or 'h'"
    ELSE IF 100 \in tags_set /\ 104 \in tags_set THEN "Cannot include both 'd' and 'h'"
    ELSE ""

EncErr(e) == [ok |-> FALSE, err |-> e, out |-> <<>>, signed |-> FALSE, preimage |-> <<>>]

\* the signing tail of invoice_encode, reached with the walked payload
sign_and_assemble(hrp, data_5bit, privkey) ==
    With(convert_bits(data_5bit, 5, 8, FALSE), LAMBDA data_bytes :
        IF ~privkey.hex THEN EncErr("Invalid private key")
        ELSE IF ~data_bytes.ok THEN EncErr(data_bytes.err)
        ELSE With(hrp \o data_bytes.out, LAMBDA msg_preimage :
                 With(convert_bits(Sign(privkey.key, msg_preimage), 8, 5, TRUE),
                      LAMBDA sig_5bit :
                          [ok |-> TRUE, err |-> "",
                           out |-> Bech32_encode(hrp, data_5bit \o sig_5bit.out),
                           signed |-> TRUE, preimage |-> msg_preimage])))

\* invoice_encode(&addr, privkey), the invoice named a here
invoice_encode(a, privkey) ==
    LET hrp == <<108, 110>> \o a.currency
               \o (IF a.amount.some THEN shorten_amount(a.amount.v) ELSE <<>>)
        timestamp == encode_timestamp(a.date)
        p_tag == tagged_field(112, a.paymenthash)
    IN IF a.amount.some /\ TooManyDecimals(a.amount.v)
       THEN EncErr("Too many decimal places in amount")
       ELSE IF ~timestamp.ok THEN EncErr(timestamp.err)
       ELSE IF ~p_tag.ok THEN EncErr(p_tag.err)
       ELSE With(TagLoop(a.tags, 1, timestamp.out \o p_tag.out, {}), LAMBDA walk :
                IF walk.err # "" THEN EncErr(walk.err)
                ELSE IF description_check(walk.tags_set) # ""
                THEN EncErr(description_check(walk.tags_set))
                ELSE With(hrp, LAMBDA h : sign_and_assemble(h, walk.data, privkey)))

\* ------------------------------------------ bolt11.rs: invoice_decode

\* keys the signer is run with; a public key is named by its secret key
KeyVals == {1, 2}

\* recover_ecdsa, uninterpreted: the key that made the signature over the
\* message, or 0, a key nobody holds
Recover(sig, msg) ==
    With(msg, LAMBDA m :
        IF \E k \in KeyVals : Sign(k, m) = sig
        THEN CHOOSE k \in KeyVals : Sign(k, m) = sig
        ELSE 0)

\* the match on tag_char that keeps the 'd' value as raw 5-bit groups
decode_record_rawd(tag_char, tag_data_5bit, paymenthash, tags) ==
    With(IF tag_char \in {112, 100, 104} THEN convert_bits(tag_data_5bit, 5, 8, FALSE)
         ELSE Ok(<<>>), LAMBDA tag_data :
        LET keep == [err |-> "", paymenthash |-> paymenthash, tags |-> tags]
        IN IF tag_char = 120
           THEN [keep EXCEPT !.tags = Append(tags, Tag(120, tag_data_5bit))]
           ELSE IF tag_char = 100
           THEN [keep EXCEPT !.tags = Append(tags, Tag(100, tag_data_5bit))]
           ELSE IF tag_char \notin {112, 100, 104} THEN keep
           ELSE IF ~tag_data.ok THEN [keep EXCEPT !.err = tag_data.err]
           ELSE IF tag_char = 112
           THEN IF Len(tag_data.out) = 32 THEN [keep EXCEPT !.paymenthash = tag_data.out]
                ELSE keep
           ELSE IF tag_char = 100
           THEN IF ValidUtf8(tag_data.out, 1)
                THEN [keep EXCEPT !.tags = Append(tags, Tag(100, tag_data.out))]
                ELSE keep
           ELSE IF Len(tag_data.out) = 32
                THEN [keep EXCEPT !.tags = Append(tags, Tag(104, tag_data.out))]
                ELSE keep)

\* the match on tag_char with a 'p' arm that drops a value it cannot repack
decode_record_plenient(tag_char, tag_data_5bit, paymenthash, tags) ==
    With(IF tag_char \in {112, 100, 104} THEN convert_bits(tag_data_5bit, 5, 8, FALSE)
         ELSE Ok(<<>>), LAMBDA tag_data :
        LET keep == [err |-> "", paymenthash |-> paymenthash, tags |-> tags]
        IN IF tag_char = 120
           THEN [keep EXCEPT !.tags = Append(tags, Tag(120, tag_data_5bit))]
           ELSE IF tag_char \notin {112, 100, 104} THEN keep
           ELSE IF tag_char = 112
           THEN IF tag_data.ok /\ Len(tag_data.out) = 32
                THEN [keep EXCEPT !.paymenthash = tag_data.out]
                ELSE keep
           ELSE IF ~tag_data.ok THEN [keep EXCEPT !.err = tag_data.err]
           ELSE IF tag_char = 100
           THEN IF ValidUtf8(tag_data.out, 1)
                THEN [keep EXCEPT !.tags = Append(tags, Tag(100, tag_data.out))]
                ELSE keep
           ELSE IF Len(tag_data.out) = 32
                THEN [keep EXCEPT !.tags = Append(tags, Tag(104, tag_data.out))]
                ELSE keep)

\* the match on tag_char of the field walk
decode_record(tag_char, tag_data_5bit, paymenthash, tags) ==
    With(IF tag_char \in {112, 100, 104} THEN convert_bits(tag_data_5bit, 5, 8, FALSE)
         ELSE Ok(<<>>), LAMBDA tag_data :
        LET keep == [err |-> "", paymenthash |-> paymenthash, tags |-> tags]
        IN IF tag_char = 120
           THEN [keep EXCEPT !.tags = Append(tags, Tag(120, tag_data_5bit))]
           ELSE IF tag_char \notin {112, 100, 104} THEN keep
           ELSE IF ~tag_data.ok THEN [keep EXCEPT !.err = tag_data.err]
           ELSE IF tag_char = 112
           THEN IF Len(tag_data.out) = 32 THEN [keep EXCEPT !.paymenthash = tag_data.out]
                ELSE keep
           ELSE IF tag_char = 100
           THEN IF ValidUtf8(tag_data.out, 1)
                THEN [keep EXCEPT !.tags = Append(tags, Tag(100, tag_data.out))]
                ELSE keep
           ELSE IF Len(tag_data.out) = 32
                THEN [keep EXCEPT !.tags = Append(tags, Tag(104, tag_data.out))]
                ELSE keep)

\* the `while pos < data_part.len()` loop; pos counts from 0 as in the code
RECURSIVE FieldLoop(_, _, _, _)
FieldLoop(data_part, pos, paymenthash, tags) ==
    LET stop == [err |-> "", paymenthash |-> paymenthash, tags |-> tags]
        length == data_part[pos + 2] * 32 + data_part[pos + 3]
    IN IF pos >= Len(data_part) \/ pos + 3 > Len(data_part) THEN stop
       ELSE IF pos + 3 + length > Len(data_part) THEN stop
       ELSE IF data_part[pos + 1] >= Len(CHARSET)
       THEN [stop EXCEPT !.err = "Invalid tag"]
       ELSE With(decode_record(CHARSET[data_part[pos + 1] + 1],
                               SubSeq(data_part, pos + 4, pos + 3 + length),
                               paymenthash, tags), LAMBDA r :
                IF r.err # "" THEN r
                ELSE With(pos + 3 + length, LAMBDA next :
                         FieldLoop(data_part, next, r.paymenthash, r.tags)))

InvErr(e) == [ok |-> FALSE, err |-> e, addr |-> InvoiceBolt11_new(Repeat(0, 8))]

\* the part of invoice_decode after the prefix: timestamp, fields, signature
decode_payload(hrp, data_part, sig_part, currency, amount) ==
    IF Len(data_part) < 7 THEN InvErr("Data too short for timestamp")
    ELSE With(decode_timestamp(SubSeq(data_part, 1, 7)), LAMBDA timestamp :
         IF ~timestamp.ok THEN InvErr(timestamp.err)
         ELSE With(FieldLoop(data_part, 7, <<>>, <<>>), LAMBDA walk :
         IF walk.err # "" THEN InvErr(walk.err)
         ELSE With(convert_bits(sig_part, 5, 8, FALSE), LAMBDA sig_bytes :
         IF ~sig_bytes.ok THEN InvErr(sig_bytes.err)
         ELSE IF Len(sig_bytes.out) # 65 THEN InvErr("Invalid signature length")
         ELSE With(convert_bits(data_part, 5, 8, FALSE), LAMBDA data_bytes :
         IF ~data_bytes.ok THEN InvErr(data_bytes.err)
         ELSE [ok |-> TRUE, err |-> "",
               addr |-> [currency |-> currency, amount |-> amount,
                         date |-> timestamp.out, paymenthash |-> walk.paymenthash,
                         tags |-> walk.tags,
                         signature |-> Some(SubSeq(sig_bytes.out, 1, 64)),
                         pubkey |-> Some(Recover(sig_bytes.out, hrp \o data_bytes.out))]]))))

invoice_decode(invoice) ==
    With(Bech32_decode(invoice), LAMBDA b :
        LET hrp == b.hrp
            amount_part == SubSeq(hrp, 3, Len(hrp))
            k == CurrencyLen(amount_part)
            amount_str == SubSeq(amount_part, k + 1, Len(amount_part))
            parsed == unshorten_amount(amount_str)
        IN IF ~b.ok THEN InvErr(b.err)
           ELSE IF Len(hrp) < 2 \/ SubSeq(hrp, 1, 2) # <<108, 110>>
           THEN InvErr("Does not start with 'ln'")
           ELSE IF Len(b.data) < 104 THEN InvErr("Too short to contain signature")
           ELSE IF k > 0 /\ amount_str # <<>> /\ ~parsed.ok THEN InvErr(parsed.err)
           ELSE With(SubSeq(b.data, 1, Len(b.data) - 104), LAMBDA data_part :
                    decode_payload(hrp, data_part,
                        SubSeq(b.data, Len(b.data) - 103, Len(b.data)),
                        IF k > 0 THEN SubSeq(amount_part, 1, k) ELSE <<98, 99>>,
                        IF k > 0 /\ amount_str # <<>> THEN Some(parsed.out) ELSE NoAmount)))

\* ===================================================== SpecBits: bit packer

\* byte values the packer is driven with
ByteVals == {0, 171, 255}

IdleBits == [stage |-> "idle", b |-> <<>>, u5 |-> <<>>, back |-> <<>>]
IdleSym == [stage |-> "idle", path |-> "", arg |-> 0, res |-> "", made |-> <<>>]
IdleChk == [stage |-> "idle", hrp |-> <<>>, data |-> <<>>, checksum |-> <<>>,
            pos |-> 0, modified |-> <<>>, poly |-> 0]
IdleFld == [stage |-> "idle", tag |-> 0, data |-> <<>>, how |-> "", res |-> "", out |-> <<>>]
IdleInv == [stage |-> "idle"]
IdleAddr == InvoiceBolt11_new(Repeat(0, 8))
IdleEnc == [called |-> FALSE, res |-> EncErr("")]
IdleDec == [called |-> FALSE, res |-> InvErr("")]
IdleConv == [stage |-> "idle", amount |-> Amount(0, 0), short |-> <<>>,
            back |-> Err("")]
IdleScan == [stage |-> "idle", data_part |-> <<>>, pos |-> 0, paymenthash |-> <<>>,
             tags |-> <<>>, err |-> "", steps |-> 0]

InitBits ==
    /\ bits \in {[stage |-> "in", b |-> b, u5 |-> <<>>, back |-> <<>>] :
                    b \in SeqsUpTo(ByteVals, MaxLen)}
    /\ sym = IdleSym /\ chk = IdleChk /\ fld = IdleFld /\ inv = IdleInv
    /\ addr = IdleAddr /\ wire = <<>> /\ enc = IdleEnc /\ dec = IdleDec
    /\ conv = IdleConv /\ scan = IdleScan
    /\ pc = "idle"

Pack ==
    /\ bits.stage = "in"
    /\ bits' = [bits EXCEPT !.stage = "packed", !.u5 = bytes_to_u5_bits(bits.b)]
    /\ UNCHANGED <<sym, chk, fld, inv, addr, wire, enc, dec, pc, conv, scan>>

Unpack ==
    /\ bits.stage = "packed"
    /\ bits' = [bits EXCEPT !.stage = "unpacked", !.back = u5_bits_to_bytes(bits.u5)]
    /\ UNCHANGED <<sym, chk, fld, inv, addr, wire, enc, dec, pc, conv, scan>>

NextBits == Pack \/ Unpack

SpecBits == InitBits /\ [][NextBits]_vars

\* byte j of a byte vector read as zero past its end
ByteOrZero(b, j) == IF j <= Len(b) THEN b[j] ELSE 0

\* the i-th 5-bit group of the bits of a byte vector, most significant bit
\* first, zero padded on the right: bits 5(i-1) .. 5i-1 lie in byte j and,
\* past bit 3 of it, in byte j+1
Group5(b, i) ==
    LET first == 5 * (i - 1)
        j == (first \div 8) + 1
        off == first % 8
    IN ((ByteOrZero(b, j) * 256 + ByteOrZero(b, j + 1)) \div Pow2(11 - off)) % 32

CeilDiv(a, b) == (a + b - 1) \div b

\* C2: for every byte sequence b, bytes_to_u5_bits(b) has ceil(8*len(b)/5)
\* symbols, each the next five bits of b with the last one carrying the
\* leftover bits left-aligned over zero padding, and
\* u5_bits_to_bytes(bytes_to_u5_bits(b)) starts with b and differs from it
\* at most by trailing zero bytes.
C2_PackerInverse ==
    /\ bits.stage \in {"packed", "unpacked"} =>
          /\ Len(bits.u5) = CeilDiv(8 * Len(bits.b), 5)
          /\ \A i \in 1..Len(bits.u5) : bits.u5[i] = Group5(bits.b, i)
    /\ bits.stage = "unpacked" =>
          /\ Len(bits.back) >= Len(bits.b)
          /\ SubSeq(bits.back, 1, Len(bits.b)) = bits.b
          /\ \A i \in (Len(bits.b) + 1)..Len(bits.back) : bits.back[i] = 0

\* a vector long enough for the u32 accumulator to have dropped bits, whose
\* last symbol carries non-zero leftover bits, has been packed and unpacked
C2_Witness ==
    /\ bits.stage = "unpacked"
    /\ Len(bits.b) = 6
    /\ (8 * Len(bits.b)) % 5 # 0
    /\ bits.u5[Len(bits.u5)] # 0
    /\ bits.back = bits.b

\* ================================================= SpecU5: making a U5Bits

InitU5 ==
    /\ sym \in {[IdleSym EXCEPT !.stage = "in", !.arg = v] : v \in 0..255}
    /\ bits = IdleBits /\ chk = IdleChk /\ fld = IdleFld /\ inv = IdleInv
    /\ addr = IdleAddr /\ wire = <<>> /\ enc = IdleEnc /\ dec = IdleDec
    /\ conv = IdleConv /\ scan = IdleScan
    /\ pc = "idle"

\* what a constructor returning Option/Result leaves behind
Made(path, o) ==
    [sym EXCEPT !.stage = "made", !.path = path,
                !.res = IF o.some THEN "some" ELSE "none",
                !.made = IF o.some THEN <<o.v>> ELSE <<>>]

SymNew ==
    /\ sym.stage = "in"
    /\ sym' = Made("new", U5Bits_new(sym.arg))
    /\ UNCHANGED <<bits, chk, fld, inv, addr, wire, enc, dec, pc, conv, scan>>

SymTryFrom ==
    /\ sym.stage = "in"
    /\ sym' = Made("try_from", U5Bits_try_from(sym.arg))
    /\ UNCHANGED <<bits, chk, fld, inv, addr, wire, enc, dec, pc, conv, scan>>

SymFromChar ==
    /\ sym.stage = "in"
    /\ sym' = Made("from_char", U5Bits_from_char(sym.arg))
    /\ UNCHANGED <<bits, chk, fld, inv, addr, wire, enc, dec, pc, conv, scan>>

SymNewUnchecked ==
    /\ sym.stage = "in"
    /\ sym' = Made("new_unchecked", U5Bits_new_unchecked(sym.arg))
    /\ UNCHANGED <<bits, chk, fld, inv, addr, wire, enc, dec, pc, conv, scan>>

\* bytes_to_u5_bits on the two bytes [arg, 0xff]
SymBytesToU5 ==
    /\ sym.stage = "in"
    /\ sym' = [sym EXCEPT !.stage = "made", !.path = "bytes_to_u5_bits", !.res = "some",
                          !.made = bytes_to_u5_bits(<<sym.arg, 255>>)]
    /\ UNCHANGED <<bits, chk, fld, inv, addr, wire, enc, dec, pc, conv, scan>>

\* bech32_checksum on the one-character prefix `arg` and the data [31]: every
\* U5Bits it makes, the prefix values and the six checksum symbols
SymChecksum ==
    /\ sym.stage = "in"
    /\ sym' = [sym EXCEPT !.stage = "made", !.path = "bech32_checksum", !.res = "some",
                          !.made = hrp_values(<<sym.arg>>)
                                   \o bech32_checksum(<<sym.arg>>, <<31>>)]
    /\ UNCHANGED <<bits, chk, fld, inv, addr, wire, enc, dec, pc, conv, scan>>

\* TaggedField::new(arg, [arg, 0xff]).encode()
SymTaggedEncode ==
    /\ sym.stage = "in"
    /\ LET r == TaggedField_encode(sym.arg, <<sym.arg, 255>>)
       IN sym' = [sym EXCEPT !.stage = "made", !.path = "TaggedField::encode",
                             !.res = IF r.panic THEN "panic" ELSE "some",
                             !.made = r.out]
    /\ UNCHANGED <<bits, chk, fld, inv, addr, wire, enc, dec, pc, conv, scan>>

NextU5 ==
    \/ SymNew \/ SymTryFrom \/ SymFromChar \/ SymNewUnchecked
    \/ SymBytesToU5 \/ SymChecksum \/ SymTaggedEncode

SpecU5 == InitU5 /\ [][NextU5]_vars

HrpVals == {<<108, 110, 98, 99>>, <<76, 78>>, <<126>>}

\* symbols the checksummed data is made of
SymVals == {0, 31}

\* longest data part handed to bech32_checksum
MaxData == 3

InitChk ==
    /\ chk \in {[IdleChk EXCEPT !.stage = "in", !.hrp = h, !.data = d] :
                   h \in HrpVals, d \in SeqsUpTo(SymVals, MaxData)}
    /\ bits = IdleBits /\ sym = IdleSym /\ fld = IdleFld /\ inv = IdleInv
    /\ addr = IdleAddr /\ wire = <<>> /\ enc = IdleEnc /\ dec = IdleDec
    /\ conv = IdleConv /\ scan = IdleScan
    /\ pc = "idle"

\* bech32_checksum, and the polymod a verifier takes over what was summed
Checksum ==
    /\ chk.stage = "in"
    /\ LET c == bech32_checksum(chk.hrp, chk.data)
       IN chk' = [chk EXCEPT !.stage = "summed", !.checksum = c,
                             !.modified = chk.data \o c,
                             !.poly = bech32_polymod(hrp_values(chk.hrp) \o chk.data \o c)]
    /\ UNCHANGED <<bits, sym, fld, inv, addr, wire, enc, dec, pc, conv, scan>>

\* one symbol of the data or of the checksum is replaced by another one and
\* the verifier's polymod is taken again
Substitute ==
    /\ chk.stage = "summed"
    /\ \E p \in 1..Len(chk.modified), s \in 0..31 :
          /\ s # chk.modified[p]
          /\ LET m == [chk.modified EXCEPT ![p] = s]
             IN chk' = [chk EXCEPT !.stage = "substituted", !.pos = p, !.modified = m,
                                   !.poly = bech32_polymod(hrp_values(chk.hrp) \o m)]
    /\ UNCHANGED <<bits, sym, fld, inv, addr, wire, enc, dec, pc, conv, scan>>

NextChk == Checksum \/ Substitute

SpecChk == InitChk /\ [][NextChk]_vars

\* the prefix expansion as the checksum is specified: the high 3 bits of each
\* character, a zero, the low 5 bits of each character
Expand(prefix) ==
    [i \in 1..Len(prefix) |-> prefix[i] \div 32] \o <<0>>
    \o [i \in 1..Len(prefix) |-> prefix[i] % 32]

\* the i-th (1..6) big-endian 5-bit group of a 30-bit value
Group30(x, i) == (x \div Pow2(5 * (6 - i))) % 32

\* C4: bech32_checksum(prefix, data) is exactly 6 symbols, each in 0..31, the
\* six big-endian 5-bit groups of polymod(expand(prefix) ++ data ++ six
\* zeros) XOR 1, and data followed by them verifies:
\* polymod(expand(prefix) ++ data ++ checksum) = 1.
C4_ChecksumVerifies ==
    chk.stage = "summed" =>
        /\ Len(chk.checksum) = 6
        /\ \A i \in 1..6 : chk.checksum[i] \in 0..31
        /\ LET pm == Xor(bech32_polymod(Expand(chk.hrp) \o chk.data \o <<0, 0, 0, 0, 0, 0>>), 1)
           IN \A i \in 1..6 : chk.checksum[i] = Group30(pm, i)
        /\ bech32_polymod(Expand(chk.hrp) \o chk.data \o chk.checksum) = 1
        /\ chk.poly = 1

\* a checksum with a non-zero symbol has been computed over a non-empty data part
C4_Witness ==
    /\ chk.stage = "summed"
    /\ Len(chk.data) = MaxData
    /\ \E i \in 1..6 : chk.checksum[i] # 0
    /\ chk.poly = 1

\* C5: replacing any single symbol of the data or checksum portion of a
\* checksummed string by any other symbol makes verification fail: the
\* polymod over expand(prefix) ++ modified is not 1.
C5_SubstitutionCaught ==
    chk.stage = "substituted" => chk.poly # 1

\* a data symbol, and not only a checksum symbol, has been replaced
C5_Witness ==
    /\ chk.stage = "substituted"
    /\ chk.pos <= Len(chk.data)
    /\ chk.modified[chk.pos] # chk.data[chk.pos]
    /\ chk.poly # 1

\* ============================================== SpecFld: one tagged field

\* the tags p, x, d and h as alphabet indices
TagVals == {1, 6, 13, 23}

\* value lengths in bytes: short ones, 20 bytes (32 groups, the first that
\* needs the high length symbol) and 639 bytes (1023 groups)
FieldLens == {0, 1, 2, 3, 4, 5, 19, 20, 21, 639}

\* seeds of the value bytes
FieldSeeds == {0, 171, 255}

\* an n-byte value grown from a seed
FieldData(seed, n) == [i \in 1..n |-> (seed + 59 * i) % 256]

InitFld ==
    /\ fld \in {[IdleFld EXCEPT !.stage = "in", !.tag = t, !.data = FieldData(v, n)] :
                   t \in TagVals, v \in FieldSeeds, n \in FieldLens}
    /\ bits = IdleBits /\ sym = IdleSym /\ chk = IdleChk /\ inv = IdleInv
    /\ addr = IdleAddr /\ wire = <<>> /\ enc = IdleEnc /\ dec = IdleDec
    /\ conv = IdleConv /\ scan = IdleScan
    /\ pc = "idle"

FieldEncode ==
    /\ fld.stage = "in"
    /\ LET r == TaggedField_encode(fld.tag, fld.data)
       IN fld' = [fld EXCEPT !.stage = "encoded", !.how = "TaggedField::encode",
                             !.res = IF r.panic THEN "panic" ELSE "ok", !.out = r.out]
    /\ UNCHANGED <<bits, sym, chk, inv, addr, wire, enc, dec, pc, conv, scan>>

FieldEncodeWithPadding ==
    /\ fld.stage = "in"
    /\ \E add_padding \in BOOLEAN :
          LET r == TaggedField_encode_with_padding(fld.tag, fld.data, add_padding)
          IN fld' = [fld EXCEPT !.stage = "encoded",
                                !.how = IF add_padding THEN "encode_with_padding(true)"
                                        ELSE "encode_with_padding(false)",
                                !.res = IF r.panic THEN "panic" ELSE "ok", !.out = r.out]
    /\ UNCHANGED <<bits, sym, chk, inv, addr, wire, enc, dec, pc, conv, scan>>

\* tagged_field on the tag's character
FieldTagged ==
    /\ fld.stage = "in"
    /\ LET r == tagged_field(U5Bits_to_char(fld.tag), fld.data)
       IN fld' = [fld EXCEPT !.stage = "encoded", !.how = "tagged_field",
                             !.res = IF r.ok THEN "ok" ELSE r.err, !.out = r.out]
    /\ UNCHANGED <<bits, sym, chk, inv, addr, wire, enc, dec, pc, conv, scan>>

NextFld == FieldEncode \/ FieldEncodeWithPadding \/ FieldTagged

SpecFld == InitFld /\ [][NextFld]_vars

\* [tag, length_high, length_low] ++ lead ++ the 8-to-5 padded repacking of
\* value, with length_high*32 + length_low the number of symbols after the header
FieldShape(out, tag, lead, value) ==
    LET n == CeilDiv(8 * Len(value), 5)
    IN /\ Len(out) = 3 + Len(lead) + n
       /\ out[1] = tag
       /\ out[2] \in 0..31 /\ out[3] \in 0..31
       /\ out[2] * 32 + out[3] = Len(lead) + n
       /\ \A i \in 1..Len(lead) : out[3 + i] = lead[i]
       /\ \A i \in 1..n : out[3 + Len(lead) + i] = Group5(value, i)

\* C9 as stated: encoding one tagged field with an n-byte value (up to 1023
\* groups) emits [tag, length_high, length_low] followed by the 8-to-5 padded
\* repacking of the bytes, and length_high*32 + length_low is the number of
\* value symbols emitted, ceil(8n/5): the length counts groups, not bytes.
C9_FieldIsRepackedValue ==
    fld.stage = "encoded" =>
        /\ fld.res = "ok"
        /\ FieldShape(fld.out, fld.tag, <<>>, fld.data)
        /\ fld.out[2] * 32 + fld.out[3] = CeilDiv(8 * Len(fld.data), 5)

\* C9 amended: that holds of TaggedField::encode, tagged_field and
\* encode_with_padding(false); encode_with_padding(true) on a non-empty value
\* of up to 1022 groups emits one zero group ahead of the repacked value and
\* counts it, so the length is ceil(8n/5) + 1, still the number of symbols
\* that follow the header.
C9_FieldIsRepackedValueUnlessPadded ==
    fld.stage = "encoded" =>
        /\ fld.res = "ok"
        /\ IF fld.how = "encode_with_padding(true)" /\ fld.data # <<>>
           THEN CeilDiv(8 * Len(fld.data), 5) + 1 <= 1023 =>
                   /\ FieldShape(fld.out, fld.tag, <<0>>, fld.data)
                   /\ fld.out[2] * 32 + fld.out[3] = CeilDiv(8 * Len(fld.data), 5) + 1
           ELSE /\ FieldShape(fld.out, fld.tag, <<>>, fld.data)
                /\ fld.out[2] * 32 + fld.out[3] = CeilDiv(8 * Len(fld.data), 5)

\* a value of 32 or more groups, with padding bits in its last group, has been
\* encoded by tagged_field with the high length symbol in use
C9_Witness ==
    /\ fld.stage = "encoded" /\ fld.how = "tagged_field" /\ fld.res = "ok"
    /\ Len(fld.data) = 21
    /\ fld.out[2] = 1 /\ fld.out[3] = 2
    /\ Len(fld.out) = 37

\* ------------------------------------------------- SpecInv: Invoice::encode

\* u64 timestamps as their 8 big-endian bytes: 0, 1, 1496314658 (the default
\* of main.rs), 2^35 - 1, 2^35 + 1, 2^64 - 1
TsVals ==
    { Repeat(0, 8),
      <<0, 0, 0, 0, 0, 0, 0, 1>>,
      <<0, 0, 0, 0, 89, 47, 243, 34>>,
      <<0, 0, 0, 7, 255, 255, 255, 255>>,
      <<0, 0, 0, 8, 0, 0, 0, 1>>,
      Repeat(255, 8) }

\* feature vectors of invoice.rs
FeatVecs == { <<>>, <<0>>, <<8>>, <<14, 8, 8>>, <<3, 20>> }

\* feature maps of main.rs: every map from a subset of the keys to bool
FeatKeys == {3, 8, 20}
FeatMaps == UNION {[K -> BOOLEAN] : K \in SUBSET FeatKeys}

AmountVals == { None, Some(1), Some(2500000), Some(1000000000) }
ExpiryVals == { NoBytes, Some(<<0, 0, 0, 0, 0, 0, 0, 60>>) }
CltvVals == { NoBytes, Some(<<0, 18>>) }
DescVals == { <<>>, <<99, 111, 102, 102, 101, 101>> }

\* Invoice::new() of either program with its public fields assigned
NewInvoice(src, ts, feats, amt, exp, cltv, desc) ==
    [stage |-> "built", src |-> src, amount_msat |-> amt,
     payment_hash |-> Repeat(0, 32), payment_secret |-> Repeat(1, 32),
     description |-> desc, expiry |-> exp, min_final_cltv_expiry |-> cltv,
     features |-> feats, timestamp |-> ts,
     non_minimal_features |-> FALSE, hrp |-> <<>>, payload |-> <<>>,
     signature |-> <<>>, str |-> <<>>]

InitInv ==
    /\ inv \in
         {NewInvoice("invoice.rs", ts, f, None, e, NoBytes, <<>>) :
             ts \in TsVals, f \in FeatVecs, e \in ExpiryVals}
         \cup {NewInvoice("invoice.rs", Repeat(0, 8), <<>>, a, NoBytes, c, d) :
             a \in AmountVals, c \in CltvVals, d \in DescVals}
         \cup {NewInvoice("main.rs", ts, f, None, NoBytes, NoBytes, <<>>) :
             ts \in TsVals, f \in FeatMaps}
         \cup {NewInvoice("main.rs", <<0, 0, 0, 0, 89, 47, 243, 34>>, << >>, a, e, NoBytes, d) :
             a \in AmountVals, e \in ExpiryVals, d \in DescVals}
    /\ bits = IdleBits /\ sym = IdleSym /\ chk = IdleChk /\ fld = IdleFld
    /\ addr = IdleAddr /\ wire = <<>> /\ enc = IdleEnc /\ dec = IdleDec
    /\ conv = IdleConv /\ scan = IdleScan
    /\ pc = "idle"

\* Invoice::encode(network) of invoice.rs
InvoiceEncode ==
    /\ inv.stage = "built" /\ inv.src = "invoice.rs"
    /\ \E network \in {<<98, 99>>} :
       \E hrp \in {Invoice_hrp(inv, network)}, payload \in {Invoice_payload(inv)} :
       \E signature \in {calculate_signature(hrp, payload)} :
       \E data \in {payload \o signature} :
            inv' = [inv EXCEPT !.stage = "encoded", !.hrp = hrp, !.payload = payload,
                               !.signature = signature,
                               !.str = bech32_encode(hrp, data)]
    /\ UNCHANGED <<bits, sym, chk, fld, addr, wire, enc, dec, pc, conv, scan>>

\* Invoice::encode(network, non_minimal_features) of main.rs
InvoiceEncodeMain ==
    /\ inv.stage = "built" /\ inv.src = "main.rs"
    /\ \E network \in {<<98, 99>>}, non_minimal_features \in BOOLEAN :
       \E hrp \in {Invoice_hrp(inv, network)},
          payload \in {Invoice_payload_main(inv, non_minimal_features)} :
       \E signature \in {calculate_signature(hrp, payload)} :
       \E data \in {payload \o signature} :
            inv' = [inv EXCEPT !.stage = "encoded", !.hrp = hrp, !.payload = payload,
                               !.non_minimal_features = non_minimal_features,
                               !.signature = signature,
                               !.str = bech32_encode(hrp, data)]
    /\ UNCHANGED <<bits, sym, chk, fld, addr, wire, enc, dec, pc, conv, scan>>

NextInv == InvoiceEncode \/ InvoiceEncodeMain

SpecInv == InitInv /\ [][NextInv]_vars


\* t mod 2^35 as a u64, and its 7 base-32 digits, most significant first
Low35(t) == <<0, 0, 0, t[4] % 8, t[5], t[6], t[7], t[8]>>

Low35Digits(t) ==
    << (t[4] % 8) * 4 + (t[5] \div 64),
       (t[5] \div 2) % 32,
       (t[5] % 2) * 16 + (t[6] \div 16),
       (t[6] % 16) * 2 + (t[7] \div 128),
       (t[7] \div 4) % 32,
       (t[7] % 4) * 8 + (t[8] \div 32),
       t[8] % 32 >>

\* C8: for every timestamp t, Invoice::encode and invoice_encode emit the 7
\* base-32 digits of t mod 2^35, most significant first, and invoice_decode
\* rebuilds t mod 2^35 from them.
C8_TimestampIsLow35Bits ==
    inv.stage = "encoded" =>
        /\ Len(inv.payload) >= 7
        /\ SubSeq(inv.payload, 1, 7) = Low35Digits(inv.timestamp)
        /\ encode_timestamp(inv.timestamp) = Ok(Low35Digits(inv.timestamp))
        /\ decode_timestamp(Low35Digits(inv.timestamp)) = Ok(Low35(inv.timestamp))

\* the part of C8 that invoice_encode and invoice_decode carry
C8_Bolt11TimestampIsLow35Bits ==
    inv.stage = "encoded" =>
        /\ encode_timestamp(inv.timestamp) = Ok(Low35Digits(inv.timestamp))
        /\ decode_timestamp(Low35Digits(inv.timestamp)) = Ok(Low35(inv.timestamp))

\* the tags of the records of a payload, walked from the symbol at pos
RECURSIVE RecordTags(_, _)
RecordTags(data, pos) ==
    IF pos + 2 > Len(data) THEN <<>>
    ELSE LET length == data[pos + 1] * 32 + data[pos + 2]
         IN <<data[pos]>> \o RecordTags(data, pos + 3 + length)

\* the value symbols of the first record with the given tag
RECURSIVE RecordValue(_, _, _)
RecordValue(data, pos, tag) ==
    LET length == data[pos + 1] * 32 + data[pos + 2]
    IN IF data[pos] = tag THEN SubSeq(data, pos + 3, pos + 2 + length)
       ELSE RecordValue(data, pos + 3 + length, tag)

\* the feature indices an Invoice has enabled
Enabled(iv) ==
    IF iv.src = "invoice.rs" THEN {iv.features[i] : i \in 1..Len(iv.features)}
    ELSE {k \in DOMAIN iv.features : iv.features[k]}

\* the bytes encode_features returned inside Invoice::encode
FeatureBytes(iv) ==
    IF iv.src = "invoice.rs" THEN encode_features(iv.features)
    ELSE encode_features_map(iv.features)

\* the shortest big-endian byte string with bit i set iff i is in S
MinimalBytes(S) ==
    IF S = {} THEN <<>>
    ELSE LET top == CHOOSE x \in S : \A y \in S : y <= x
             n == (top \div 8) + 1
             bit(i) == IF i \in S THEN Pow2(i % 8) ELSE 0
         IN [j \in 1..n |->
               LET b == 8 * (n - j)
               IN bit(b) + bit(b + 1) + bit(b + 2) + bit(b + 3)
                  + bit(b + 4) + bit(b + 5) + bit(b + 6) + bit(b + 7)]

\* C10: encode_features returns the minimal big-endian byte string whose bit
\* i is set iff feature i is present, the '9' field carries it, and with no
\* feature present the payload has no '9' field (main.rs called with
\* non_minimal_features = false).
C10_FeaturesMinimalOrOmitted ==
    (inv.stage = "encoded" /\ ~inv.non_minimal_features) =>
        LET tags == RecordTags(inv.payload, 8)
            has9 == \E k \in 1..Len(tags) : tags[k] = 5
        IN /\ FeatureBytes(inv) = MinimalBytes(Enabled(inv))
           /\ has9 <=> Enabled(inv) # {}
           /\ has9 => RecordValue(inv.payload, 8, 5)
                         = bytes_to_u5_bits(MinimalBytes(Enabled(inv)))

\* the same for the Invoice of invoice.rs alone
C10_InvoiceRsFeaturesMinimalOrOmitted ==
    (inv.stage = "encoded" /\ inv.src = "invoice.rs") =>
        LET tags == RecordTags(inv.payload, 8)
            has9 == \E k \in 1..Len(tags) : tags[k] = 5
        IN /\ FeatureBytes(inv) = MinimalBytes(Enabled(inv))
           /\ has9 <=> Enabled(inv) # {}
           /\ has9 => RecordValue(inv.payload, 8, 5)
                         = bytes_to_u5_bits(MinimalBytes(Enabled(inv)))


\* ================================== Spec: InvoiceBolt11, encode and decode

\* most tags a builder chain adds
MaxTags == 2

\* clock readings of InvoiceBolt11::new(): 1496314658 and 2^64 - 1
DateVals == { <<0, 0, 0, 0, 89, 47, 243, 34>>, Repeat(255, 8) }

\* with_amount: 1e-12 and 1e-4
AmtVals == { Amount(1, -12), Amount(1, -4) }

\* with_currency: "tb", "b2x"
CurrencyVals == { <<116, 98>>, <<98, 50, 120>> }

\* a 32-byte hash
Hash32 == [i \in 1..32 |-> (7 * i) % 256]

\* add_description: "ab", "né!" (4 bytes), "coffee"
DescVals11 == { <<97, 98>>, <<110, 195, 169, 33>>, <<99, 111, 102, 102, 101, 101>> }

\* add_expiry: 60 seconds
ExpVals == { 60 }

\* private keys handed to invoice_encode: hex of a key, or not hex at all
PrivKeys == {[hex |-> TRUE, key |-> k] : k \in KeyVals} \cup {[hex |-> FALSE, key |-> 0]}

\* one record of a payload written by hand
Record(tag, value) == <<tag, Len(value) \div 32, Len(value) % 32>> \o value

\* an invoice string written by a peer: prefix, timestamp, the records as
\* given, a signature of key 1 over them, checksum
Forged(prefix, records) ==
    With(Repeat(0, 7) \o records, LAMBDA data_part :
        With(prefix \o convert_bits(data_part, 5, 8, FALSE).out, LAMBDA msg :
            Bech32_encode(prefix, data_part \o convert_bits(Sign(1, msg), 8, 5, TRUE).out)))

RecP == tagged_field(112, Hash32).out
RecH == tagged_field(104, Hash32).out
RecD(text) == tagged_field(100, text).out

\* strings from a peer whose payload repeats a record: two 'd', two 'h',
\* two 'x', and two 'd' under the prefix lnbc1p
DupWires ==
    { Forged(<<108, 110, 98, 99>>, RecP \o RecD(<<97, 98>>) \o RecD(<<99, 100>>)),
      Forged(<<108, 110, 98, 99>>, RecP \o RecH \o RecH),
      Forged(<<108, 110, 98, 99>>,
             RecP \o RecD(<<97, 98>>) \o Record(6, <<2>>) \o Record(6, <<2>>)),
      Forged(<<108, 110, 98, 99, 49, 112>>, RecP \o RecD(<<97, 98>>) \o RecD(<<99, 100>>)) }

\* strings that reach invoice_decode from outside: the above, and one with
\* a 'd' and an 'h'
ForgedWires ==
    DupWires \cup {Forged(<<108, 110, 98, 99>>, RecP \o RecD(<<97, 98>>) \o RecH)}

Init ==
    /\ addr \in {InvoiceBolt11_new(d) : d \in DateVals}
    /\ wire = <<>> /\ enc = IdleEnc /\ dec = IdleDec
    /\ conv = IdleConv /\ scan = IdleScan /\ pc = "build"
    /\ bits = IdleBits /\ sym = IdleSym /\ chk = IdleChk /\ fld = IdleFld /\ inv = IdleInv

Building == pc = "build" /\ ~dec.called

with_amount ==
    /\ Building
    /\ \E amount \in AmtVals : addr' = [addr EXCEPT !.amount = Some(amount)]
    /\ UNCHANGED <<bits, sym, chk, fld, inv, wire, enc, dec, pc, conv, scan>>

with_currency ==
    /\ Building
    /\ \E currency \in CurrencyVals : addr' = [addr EXCEPT !.currency = currency]
    /\ UNCHANGED <<bits, sym, chk, fld, inv, wire, enc, dec, pc, conv, scan>>

with_paymenthash ==
    /\ Building
    /\ \E hash \in {Hash32} : addr' = [addr EXCEPT !.paymenthash = hash]
    /\ UNCHANGED <<bits, sym, chk, fld, inv, wire, enc, dec, pc, conv, scan>>

add_description ==
    /\ Building /\ Len(addr.tags) < MaxTags
    /\ \E description \in DescVals11 :
         addr' = [addr EXCEPT !.tags = Append(@, Tag(100, description))]
    /\ UNCHANGED <<bits, sym, chk, fld, inv, wire, enc, dec, pc, conv, scan>>

add_description_hash ==
    /\ Building /\ Len(addr.tags) < MaxTags
    /\ \E hash \in {Hash32} : addr' = [addr EXCEPT !.tags = Append(@, Tag(104, hash))]
    /\ UNCHANGED <<bits, sym, chk, fld, inv, wire, enc, dec, pc, conv, scan>>

add_expiry ==
    /\ Building /\ Len(addr.tags) < MaxTags
    /\ \E expiry \in ExpVals :
         LET digits == ExpiryDigits(expiry)
         IN addr' = [addr EXCEPT !.tags =
                        Append(@, Tag(120, IF digits = <<>> THEN <<0>> ELSE digits))]
    /\ UNCHANGED <<bits, sym, chk, fld, inv, wire, enc, dec, pc, conv, scan>>

\* invoice_encode(&addr, privkey); the string it returns goes on the wire
Encode ==
    /\ pc = "build"
    /\ \E privkey \in PrivKeys :
       \E res \in {invoice_encode(addr, privkey)} :
         /\ enc' = [called |-> TRUE, res |-> res]
         /\ wire' = IF res.ok THEN res.out ELSE wire
    /\ pc' = "encoded"
    /\ UNCHANGED <<bits, sym, chk, fld, inv, addr, dec, conv, scan>>

\* a string arrives from a peer instead of from invoice_encode
Receive ==
    /\ pc = "build" /\ addr = InvoiceBolt11_new(addr.date) /\ wire = <<>>
    /\ wire' \in ForgedWires
    /\ pc' = "received"
    /\ UNCHANGED <<bits, sym, chk, fld, inv, addr, enc, dec, conv, scan>>

\* invoice_decode(&wire)
Decode ==
    /\ (pc = "encoded" /\ enc.res.ok) \/ pc = "received"
    /\ \E res \in {invoice_decode(wire)} : dec' = [called |-> TRUE, res |-> res]
    /\ pc' = "decoded"
    /\ UNCHANGED <<bits, sym, chk, fld, inv, addr, wire, enc, conv, scan>>

\* invoice_encode(&decoded, privkey) on the invoice invoice_decode returned
\* for a string that came from a peer
ReEncode ==
    /\ pc = "decoded" /\ dec.res.ok /\ ~enc.called
    /\ addr' = dec.res.addr
    /\ \E privkey \in PrivKeys :
       \E res \in {invoice_encode(dec.res.addr, privkey)} :
         /\ enc' = [called |-> TRUE, res |-> res]
         /\ wire' = IF res.ok THEN res.out ELSE wire
    /\ pc' = "encoded"
    /\ UNCHANGED <<bits, sym, chk, fld, inv, dec, conv, scan>>

Next ==
    \/ with_amount \/ with_currency \/ with_paymenthash
    \/ add_description \/ add_description_hash \/ add_expiry
    \/ Encode \/ Receive \/ Decode \/ ReEncode

Spec == Init /\ [][Next]_vars


\* ------------------------------------------------ properties of Spec

Count(tags, c) == Cardinality({i \in 1..Len(tags) : tags[i].tag = c})

DescTags(tags) == SelectSeq(tags, LAMBDA t : t.tag \in {100, 104})

\* a 32-byte payment hash and exactly one of 'd' or 'h' (32 bytes)
OneDescription(a) ==
    /\ Len(a.paymenthash) = 32
    /\ Count(a.tags, 100) + Count(a.tags, 104) = 1
    /\ \A i \in 1..Len(a.tags) : a.tags[i].tag = 104 => Len(a.tags[i].data) = 32

\* the string on the wire is the one invoice_encode returned for addr, and
\* invoice_decode has read it
RoundTripped == pc = "decoded" /\ enc.called /\ enc.res.ok /\ wire = enc.res.out

\* invoice_decode gave back the payment hash and the 'd' or 'h' bytes of addr
SameHashAndDescription ==
    /\ dec.res.ok
    /\ dec.res.addr.paymenthash = addr.paymenthash
    /\ DescTags(dec.res.addr.tags) = DescTags(addr.tags)

Fails(res, e) == ~res.ok /\ res.err = e /\ res.out = <<>> /\ ~res.signed

NoDescription(a) == Count(a.tags, 100) = 0 /\ Count(a.tags, 104) = 0

BothDescriptions(a) == Count(a.tags, 100) = 1 /\ Count(a.tags, 104) = 1

\* the checks invoice_encode makes before the two description checks pass:
\* the amount's decimal places, no second 'd', 'h', 'n' or 'x', no other tag
EarlierChecksPass(a) ==
    /\ ~(a.amount.some /\ TooManyDecimals(a.amount.v))
    /\ \A c \in {100, 104, 110, 120} : Count(a.tags, c) <= 1
    /\ \A i \in 1..Len(a.tags) : a.tags[i].tag \in {100, 104, 120}

\* C6 as stated: encoding an invoice with neither 'd' nor 'h' fails with the
\* missing-description error, one with one 'd' and one 'h' fails with the
\* conflicting-description error; no string is returned, nothing is signed.
C6_DescriptionErrors ==
    (pc = "encoded" /\ enc.called) =>
        /\ NoDescription(addr) => Fails(enc.res, "Must include either 'd' or 'h'")
        /\ BothDescriptions(addr) => Fails(enc.res, "Cannot include both 'd' and 'h'")

\* C6: the same when the amount and the tag list pass the earlier checks;
\* when they do not, encoding still fails without a string or a signature,
\* with the earlier check's error.
C6_DescriptionErrorsAfterEarlierChecks ==
    (pc = "encoded" /\ enc.called) =>
        /\ (NoDescription(addr) /\ EarlierChecksPass(addr))
              => Fails(enc.res, "Must include either 'd' or 'h'")
        /\ (BothDescriptions(addr) /\ EarlierChecksPass(addr))
              => Fails(enc.res, "Cannot include both 'd' and 'h'")
        /\ ((NoDescription(addr) \/ BothDescriptions(addr)) /\ ~EarlierChecksPass(addr))
              => /\ ~enc.res.ok /\ enc.res.out = <<>> /\ ~enc.res.signed
                 /\ enc.res.err \notin {"Must include either 'd' or 'h'",
                                        "Cannot include both 'd' and 'h'"}

C6_Witness ==
    /\ pc = "encoded" /\ enc.called
    /\ NoDescription(addr) /\ EarlierChecksPass(addr)
    /\ addr.amount.some /\ Count(addr.tags, 120) = 1
    /\ Fails(enc.res, "Must include either 'd' or 'h'")

\* the positions of the tag list that repeat an earlier 'd', 'h' or 'x'
Repeats(tags) ==
    {j \in 1..Len(tags) : tags[j].tag \in {100, 104, 120}
                          /\ \E i \in 1..(j - 1) : tags[i].tag = tags[j].tag}

SecondOccurrence(tags) == CHOOSE j \in Repeats(tags) : \A k \in Repeats(tags) : j <= k

\* invoice_decode took a string with a repeated record and kept both records
DecodeToleratesRepeat ==
    (pc = "decoded" /\ wire \in DupWires) =>
        dec.res.ok /\ Repeats(dec.res.addr.tags) # {}

AmtMantissas == {0, 1, 25, 1500, 2500}
AmtExponents == {-12, -11, -9, -6, -4, -3, -1, 0}

InitAmt ==
    /\ conv \in {[stage |-> "in", amount |-> Amount(m, e), short |-> <<>>,
                  back |-> Err("")] : m \in AmtMantissas, e \in AmtExponents}
    /\ bits = IdleBits /\ sym = IdleSym /\ chk = IdleChk /\ fld = IdleFld
    /\ inv = IdleInv /\ addr = IdleAddr /\ wire = <<>> /\ enc = IdleEnc
    /\ dec = IdleDec /\ scan = IdleScan /\ pc = "idle"

\* shorten_amount(amount)
Shorten ==
    /\ conv.stage = "in"
    /\ conv' = [conv EXCEPT !.stage = "short", !.short = shorten_amount(conv.amount)]
    /\ UNCHANGED <<bits, sym, chk, fld, inv, addr, wire, enc, dec, pc, scan>>

\* unshorten_amount(&short)
Unshorten ==
    /\ conv.stage = "short"
    /\ conv' = [conv EXCEPT !.stage = "back", !.back = unshorten_amount(conv.short)]
    /\ UNCHANGED <<bits, sym, chk, fld, inv, addr, wire, enc, dec, pc, scan>>

NextAmt == Shorten \/ Unshorten

SpecAmt == InitAmt /\ [][NextAmt]_vars

\* m * 10^e with the trailing zeros of m moved into e; zero is (0, 0)
RECURSIVE Normal(_)
Normal(a) ==
    IF a.m = 0 THEN Amount(0, 0)
    ELSE IF a.m % 10 = 0 THEN Normal(Amount(a.m \div 10, a.e + 1))
    ELSE a

\* the number of times 1000 divides the amount in pico-units, at most 4
Divisions(a) ==
    IF a.m = 0 THEN 4
    ELSE LET k == (Normal(a).e + 12) \div 3 IN IF k > 4 THEN 4 ELSE k

\* the suffix of the final divisor: p, n, u, m, or none after four divisions
UnitOf(k) ==
    CASE k = 0 -> <<112>> [] k = 1 -> <<110>> [] k = 2 -> <<117>>
      [] k = 3 -> <<109>> [] OTHER -> <<>>

\* C11: for every amount that is a whole number of pico-units,
\* unshorten_amount(shorten_amount(amount)) is the amount, and the shortened
\* string ends in the suffix p, n, u or m of the final divisor, or has no
\* suffix when it is a whole number of base units.
C11_ShortenRoundTrip ==
    conv.stage = "back" =>
        /\ conv.back.ok
        /\ Normal(conv.back.out) = Normal(conv.amount)
        /\ LET unit == UnitOf(Divisions(conv.amount))
           IN /\ Len(conv.short) > Len(unit)
              /\ SubSeq(conv.short, Len(conv.short) - Len(unit) + 1, Len(conv.short)) = unit
              /\ \A i \in 1..(Len(conv.short) - Len(unit)) : IsDigit(conv.short[i])

\* what shorten_amount and unshorten_amount do: the string is the digits of
\* the pico-units divided by 1000 up to four times, with no suffix, and it
\* is read back as that many base units
C11_ShortenDropsTheUnit ==
    conv.stage = "back" =>
        /\ conv.back.ok
        /\ \A i \in 1..Len(conv.short) : IsDigit(conv.short[i])
        /\ Normal(conv.back.out)
             = Normal(Amount(conv.amount.m, conv.amount.e + 12 - 3 * Divisions(conv.amount)))


\* ------------------------------------------- the expiry field (Spec, SpecInv)

\* a sequence of 5-bit symbols read as base-32 digits, most significant first
RECURSIVE Base32(_)
Base32(q) ==
    IF q = <<>> THEN 0 ELSE 32 * Base32(SubSeq(q, 1, Len(q) - 1)) + q[Len(q)]

\* the data of the 'x' tag of an invoice
ExpiryOf(a) == (CHOOSE t \in {a.tags[i] : i \in 1..Len(a.tags)} : t.tag = 120).data

\* the payload symbols of the string on the wire
WirePayload == Bech32_decode(wire).data

\* C12: for every expiry e set with add_expiry, the value symbols of the 'x'
\* record invoice_encode emits, read as base-32 digits most significant
\* first, equal e, invoice_decode returns exactly those symbols, and so the
\* expiry read from decode(encode(invoice)) is e.
C12_ExpiryIsBase32Digits ==
    (RoundTripped /\ dec.res.ok /\ Count(addr.tags, 120) = 1) =>
        /\ Base32(RecordValue(WirePayload, 8, 6)) = Base32(ExpiryOf(addr))
        /\ Count(dec.res.addr.tags, 120) = 1
        /\ ExpiryOf(dec.res.addr) = RecordValue(WirePayload, 8, 6)
        /\ Base32(ExpiryOf(dec.res.addr)) = Base32(ExpiryOf(addr))

\* what invoice_encode emits: the digits add_expiry stored, one per byte,
\* repacked 8-to-5 by tagged_field; invoice_decode returns those symbols
C12_ExpiryDigitsAreRepacked ==
    (RoundTripped /\ dec.res.ok /\ Count(addr.tags, 120) = 1) =>
        /\ RecordValue(WirePayload, 8, 6) = convert_bits(ExpiryOf(addr), 8, 5, TRUE).out
        /\ Count(dec.res.addr.tags, 120) = 1
        /\ ExpiryOf(dec.res.addr) = RecordValue(WirePayload, 8, 6)

\* Invoice::encode of invoice.rs: the 'x' record carries the 8 big-endian
\* bytes of the expiry repacked 8-to-5, 13 symbols whose base-32 value is
\* twice the expiry
C12_InvoiceRsExpiryIsShifted ==
    (inv.stage = "encoded" /\ inv.src = "invoice.rs" /\ inv.expiry.some) =>
        /\ RecordValue(inv.payload, 8, 6) = bytes_to_u5_bits(inv.expiry.v)
        /\ Len(RecordValue(inv.payload, 8, 6)) = 13
        /\ Base32(RecordValue(inv.payload, 8, 6)) = 2 * inv.expiry.v[8]


\* ------------------------------------------- the decimal-places check (Spec)

\* the amount m * 10^e is a whole number of pico-units (10^-12 base units)
WholePico(a) == a.e >= -12 \/ a.m % Pow10(-(a.e + 12)) = 0

\* the amount is a whole number of tens of pico-units
WholeTenPico(a) == a.e >= -11 \/ a.m % Pow10(-(a.e + 11)) = 0

\* C13: invoice_encode fails with the too-many-decimal-places error if and
\* only if the amount is not a whole number of pico-units, and then returns
\* no string.
C13_RejectedIffNotWholePico ==
    (pc = "encoded" /\ enc.called /\ addr.amount.some) =>
        /\ enc.res.err = "Too many decimal places in amount" <=> ~WholePico(addr.amount.v)
        /\ enc.res.err = "Too many decimal places in amount"
              => Fails(enc.res, "Too many decimal places in amount")

\* what invoice_encode does: it rejects every amount that is not a whole
\* number of tens of pico-units, before any other check
C13_RejectedIffNotWholeTenPico ==
    (pc = "encoded" /\ enc.called) =>
        /\ enc.res.err = "Too many decimal places in amount"
              <=> (addr.amount.some /\ ~WholeTenPico(addr.amount.v))
        /\ enc.res.err = "Too many decimal places in amount"
              => Fails(enc.res, "Too many decimal places in amount")


\* ===================== SpecWalk: the field walk of invoice_decode, by steps

\* most records of a payload the walk is driven with
MaxRecs == 2

\* a second 32-byte hash
Hash32b == [i \in 1..32 |-> (11 * i + 3) % 256]

\* records a payload is made of: 'p' with 32 bytes (two values), 'p' with
\* no, one and two symbols (two symbols with zero and with non-zero slack),
\* 'd' "ab", 'x' [1, 28], and a record with the tag '9' (5), which
\* invoice_decode does not know
WalkRecords ==
    { RecP, tagged_field(112, Hash32b).out,
      Record(1, <<>>), Record(1, <<0>>), Record(1, <<5, 0>>), Record(1, <<0, 1>>),
      RecD(<<97, 98>>), Record(6, <<1, 28>>), Record(5, <<1, 2>>) }

\* what follows the last record: nothing, one symbol, two symbols, a header
\* that declares 5 symbols where 2 remain, a header that declares 1023
WalkTrailers == { <<>>, <<13>>, <<13, 0>>, <<13, 0, 5, 1, 2>>, <<1, 31, 31>> }

RECURSIVE Flatten(_)
Flatten(qs) == IF qs = <<>> THEN <<>> ELSE Head(qs) \o Flatten(Tail(qs))

\* data_part: 7 timestamp symbols, the records, the trailer
WalkPayloads ==
    {Repeat(0, 7) \o Flatten(rs) \o t : rs \in SeqsUpTo(WalkRecords, MaxRecs),
                                        t \in WalkTrailers}

InitWalk ==
    /\ scan \in {[IdleScan EXCEPT !.stage = "in", !.data_part = d] : d \in WalkPayloads}
    /\ bits = IdleBits /\ sym = IdleSym /\ chk = IdleChk /\ fld = IdleFld
    /\ inv = IdleInv /\ addr = IdleAddr /\ wire = <<>> /\ enc = IdleEnc
    /\ dec = IdleDec /\ conv = IdleConv /\ pc = "idle"

\* one pass of the loop that reports a truncated record as an error
FieldStep_fatal(st) ==
    LET n == Len(st.data_part)
        length == st.data_part[st.pos + 2] * 32 + st.data_part[st.pos + 3]
    IN IF st.pos >= n THEN [st EXCEPT !.stage = "done"]
       ELSE IF st.pos + 3 > n \/ st.pos + 3 + length > n
       THEN [st EXCEPT !.stage = "failed", !.err = "Truncated record"]
       ELSE With(decode_record(CHARSET[st.data_part[st.pos + 1] + 1],
                               SubSeq(st.data_part, st.pos + 4, st.pos + 3 + length),
                               st.paymenthash, st.tags), LAMBDA r :
                IF r.err # ""
                THEN [st EXCEPT !.stage = "failed", !.pos = st.pos + 3 + length,
                                !.err = r.err]
                ELSE [st EXCEPT !.pos = st.pos + 3 + length, !.steps = @ + 1,
                                !.paymenthash = r.paymenthash, !.tags = r.tags])

\* one pass of `while pos < data_part.len()`: the loop ends ("done"), the
\* function returns an error ("failed"), or one record is consumed
FieldStep(st) ==
    LET n == Len(st.data_part)
        length == st.data_part[st.pos + 2] * 32 + st.data_part[st.pos + 3]
    IN IF st.pos >= n \/ st.pos + 3 > n THEN [st EXCEPT !.stage = "done"]
       ELSE IF st.pos + 3 + length > n
       THEN [st EXCEPT !.stage = "done", !.pos = st.pos + 3]
       ELSE IF st.data_part[st.pos + 1] >= Len(CHARSET)
       THEN [st EXCEPT !.stage = "failed", !.pos = st.pos + 3 + length,
                       !.err = "Invalid tag"]
       ELSE With(decode_record(CHARSET[st.data_part[st.pos + 1] + 1],
                               SubSeq(st.data_part, st.pos + 4, st.pos + 3 + length),
                               st.paymenthash, st.tags), LAMBDA r :
                IF r.err # ""
                THEN [st EXCEPT !.stage = "failed", !.pos = st.pos + 3 + length,
                                !.err = r.err]
                ELSE [st EXCEPT !.pos = st.pos + 3 + length, !.steps = @ + 1,
                                !.paymenthash = r.paymenthash, !.tags = r.tags])

\* let mut pos = 7
StartWalk ==
    /\ scan.stage = "in"
    /\ scan' = [scan EXCEPT !.stage = "walk", !.pos = 7]
    /\ UNCHANGED <<bits, sym, chk, fld, inv, addr, wire, enc, dec, pc, conv>>

WalkStep ==
    /\ scan.stage = "walk"
    /\ scan' = FieldStep(scan)
    /\ UNCHANGED <<bits, sym, chk, fld, inv, addr, wire, enc, dec, pc, conv>>

NextWalk == StartWalk \/ WalkStep

\* the loop is sequential code: it keeps running until it ends
SpecWalk == InitWalk /\ [][NextWalk]_vars /\ WF_vars(NextWalk)


\* ------------------------------------------------ properties of SpecWalk

\* the tags invoice_decode recognizes: p, d, h, x
KnownTags == {1, 13, 23, 6}

\* the complete records of a payload from pos on (pos counts from 0), each
\* with the position of its header
RECURSIVE Records(_, _)
Records(data, pos) ==
    IF pos + 3 > Len(data) THEN <<>>
    ELSE LET length == data[pos + 2] * 32 + data[pos + 3]
         IN IF pos + 3 + length > Len(data) THEN <<>>
            ELSE <<[at |-> pos, tag |-> data[pos + 1],
                    value |-> SubSeq(data, pos + 4, pos + 3 + length)]>>
                 \o Records(data, pos + 3 + length)

\* the payload without its complete records of unknown tag
RECURSIVE Strip(_, _)
Strip(data, pos) ==
    IF pos + 3 > Len(data) THEN SubSeq(data, pos + 1, Len(data))
    ELSE LET length == data[pos + 2] * 32 + data[pos + 3]
         IN IF pos + 3 + length > Len(data) THEN SubSeq(data, pos + 1, Len(data))
            ELSE (IF data[pos + 1] \in KnownTags
                  THEN SubSeq(data, pos + 1, pos + 3 + length) ELSE <<>>)
                 \o Strip(data, pos + 3 + length)

\* what the walk has produced
WalkResult == [err |-> scan.err, paymenthash |-> scan.paymenthash, tags |-> scan.tags]

WalkOver == scan.stage \in {"done", "failed"}

\* C14 as stated: a record whose tag is not recognized is retained in the
\* decoded invoice as the pair (tag, raw 5-bit value).
C14_UnknownRecordRetained ==
    scan.stage = "done" =>
        LET recs == Records(scan.data_part, 7)
        IN \A k \in 1..Len(recs) :
              recs[k].tag \notin KnownTags =>
                  \E i \in 1..Len(scan.tags) :
                      scan.tags[i] = Tag(CHARSET[recs[k].tag + 1], recs[k].value)

\* what invoice_decode does: the walk gives the result it gives on the
\* payload without the unknown records, which leave no trace
C14_UnknownRecordSkipped ==
    WalkOver =>
        /\ WalkResult = FieldLoop(scan.data_part, 7, <<>>, <<>>)
        /\ WalkResult = FieldLoop(Repeat(0, 7) \o Strip(scan.data_part, 7), 7, <<>>, <<>>)
        /\ \A i \in 1..Len(scan.tags) : scan.tags[i].tag \in {100, 104, 120}


\* a complete 'p' record lies at the walk's position
PRecordAhead(st) ==
    /\ st.stage = "walk" /\ st.pos + 3 <= Len(st.data_part)
    /\ st.pos + 3 + st.data_part[st.pos + 2] * 32 + st.data_part[st.pos + 3]
          <= Len(st.data_part)
    /\ st.data_part[st.pos + 1] = 1

\* the value symbols of the record at the walk's position
ValueAhead(st) ==
    SubSeq(st.data_part, st.pos + 4,
           st.pos + 3 + st.data_part[st.pos + 2] * 32 + st.data_part[st.pos + 3])

\* the symbols hold whole bytes followed by fewer than 5 bits, all zero
Canonical(v) ==
    LET slack == (5 * Len(v)) % 8
    IN slack < 5 /\ (slack > 0 => v[Len(v)] % Pow2(slack) = 0)

\* the record was dropped: no error, nothing changed, the walk goes on
\* behind it
DroppedSilently ==
    /\ scan'.stage = "walk" /\ scan'.err = ""
    /\ scan'.paymenthash = scan.paymenthash /\ scan'.tags = scan.tags
    /\ scan'.pos = scan.pos + 3 + Len(ValueAhead(scan))

\* C15 as stated: a 'p' record sets the payment hash only if its value is
\* exactly 32 bytes (52 symbols); a 'p' record of any other length is
\* dropped without an error, the payment hash unchanged, the walk going on.
C15_OtherLengthDropped ==
    [][PRecordAhead(scan) =>
          /\ Len(ValueAhead(scan)) # 52 => DroppedSilently
          /\ scan'.paymenthash # scan.paymenthash => Len(ValueAhead(scan)) = 52]_vars

\* C15: the same for 'p' records whose value repacks 5-to-8 without padding
\* (whole bytes, then fewer than 5 bits, all zero); a 'p' record whose value
\* does not makes the decode fail with the padding error.
C15_OtherLengthDroppedIfCanonical ==
    [][PRecordAhead(scan) =>
          /\ (Canonical(ValueAhead(scan)) /\ Len(ValueAhead(scan)) # 52)
                => DroppedSilently
          /\ (Canonical(ValueAhead(scan)) /\ Len(ValueAhead(scan)) = 52)
                => /\ scan'.stage = "walk" /\ scan'.err = ""
                   /\ scan'.paymenthash = u5_bits_to_bytes(ValueAhead(scan))
                   /\ Len(scan'.paymenthash) = 32 /\ scan'.tags = scan.tags
          /\ ~Canonical(ValueAhead(scan))
                => /\ scan'.stage = "failed" /\ scan'.err = "InvalidPadding"
                   /\ scan'.paymenthash = scan.paymenthash /\ scan'.tags = scan.tags]_vars

\* a two-symbol 'p' record was dropped after a 32-byte one set the hash
C15_Witness ==
    /\ scan.stage = "done" /\ scan.err = ""
    /\ scan.data_part = Repeat(0, 7) \o RecP \o Record(1, <<5, 0>>)
    /\ scan.pos = Len(scan.data_part) /\ scan.steps = 2
    /\ scan.paymenthash = Hash32


\* fewer than 3 symbols remain at the walk's position, or the header there
\* declares more symbols than remain behind it
Truncated(st) ==
    \/ st.pos + 3 > Len(st.data_part)
    \/ st.pos + 3 + st.data_part[st.pos + 2] * 32 + st.data_part[st.pos + 3]
          > Len(st.data_part)

\* C19: the field walk ends on every payload; it starts at position 7, every
\* pass that finds a complete record moves the position on by at least 3,
\* the position never exceeds the payload length, and a pass that finds
\* fewer than 3 symbols or a record longer than what remains ends the walk
\* without an error, keeping the fields parsed so far.
C19_WalkEndsAndToleratesTruncation ==
    /\ [](scan.stage \in {"walk", "done", "failed"} =>
             /\ scan.pos >= 7 + 3 * scan.steps
             /\ scan.pos <= Len(scan.data_part))
    /\ [][scan.stage = "walk" =>
             /\ Truncated(scan) =>
                   /\ scan'.stage = "done" /\ scan'.err = ""
                   /\ scan'.paymenthash = scan.paymenthash /\ scan'.tags = scan.tags
             /\ ~Truncated(scan) =>
                   /\ scan'.stage \in {"walk", "failed"}
                   /\ scan'.pos >= scan.pos + 3]_vars
    /\ <>WalkOver

\* the walk ended at a header that declares 5 symbols where 2 remain, with
\* the 'p' and 'd' records before it parsed
C19_Witness ==
    /\ scan.stage = "done" /\ scan.err = ""
    /\ scan.data_part = Repeat(0, 7) \o RecP \o RecD(<<97, 98>>) \o <<13, 0, 5, 1, 2>>
    /\ scan.pos = Len(scan.data_part) - 2 /\ scan.steps = 2
    /\ scan.paymenthash = Hash32 /\ scan.tags = <<Tag(100, <<97, 98>>)>>


\* ------------------------------------ the shape of the string (SpecInv)

\* the symbols from position pos on (counting from 1) are whole records
RECURSIVE WholeRecords(_, _)
WholeRecords(data, pos) ==
    IF pos = Len(data) + 1 THEN TRUE
    ELSE IF pos + 2 > Len(data) THEN FALSE
    ELSE WholeRecords(data, pos + 3 + data[pos + 1] * 32 + data[pos + 2])

\* an amount string: digits and one of the suffixes m, u, n, p
IsAmountString(q) ==
    /\ Len(q) >= 2 /\ q[Len(q)] \in {109, 117, 110, 112}
    /\ \A i \in 1..(Len(q) - 1) : IsDigit(q[i])

\* the string is prefix, "1", and characters of the alphabet whose symbols
\* are 7 timestamp symbols, whole tagged fields, the 104 symbols of 65
\* bytes, and 6 symbols that make the checksum of the whole verify
ShapeOf(str, prefix) ==
    LET n == Len(prefix)
        chars == SubSeq(str, n + 2, Len(str))
    IN /\ Len(str) >= n + 1 + 7 + 104 + 6
       /\ SubSeq(str, 1, n) = prefix /\ str[n + 1] = 49
       /\ \A i \in 1..Len(chars) : U5Bits_from_char(chars[i]).some
       /\ With([i \in 1..Len(chars) |-> U5Bits_from_char(chars[i]).v], LAMBDA symbols :
             LET m == Len(symbols)
                 fields == SubSeq(symbols, 8, m - 110)
                 signature == SubSeq(symbols, m - 109, m - 6)
             IN /\ WholeRecords(fields, 1)
                /\ Len(signature) = 104
                /\ Len(u5_bits_to_bytes(signature)) = 65
                /\ bytes_to_u5_bits(u5_bits_to_bytes(signature)) = signature
                /\ Len(SubSeq(symbols, m - 5, m)) = 6
                /\ bech32_polymod(hrp_values(prefix) \o symbols) = 1)

\* C16: every string Invoice::encode returns is prefix + "1" + payload
\* characters, the prefix being "ln" + network + amount string, every
\* character after the separator in the alphabet, and the symbols after the
\* separator 7 timestamp symbols, the tagged fields, 104 signature symbols
\* (65 bytes repacked 8-to-5) and 6 checksum symbols.
C16_StringShape ==
    inv.stage = "encoded" =>
        /\ Len(inv.hrp) >= 4 /\ SubSeq(inv.hrp, 1, 4) = <<108, 110, 98, 99>>
        /\ LET amount == SubSeq(inv.hrp, 5, Len(inv.hrp))
           IN IF inv.amount_msat.some THEN IsAmountString(amount) ELSE amount = <<>>
        /\ ShapeOf(inv.str, inv.hrp)

\* the string of an invoice of invoice.rs with an amount and a description
C16_Witness ==
    /\ inv.stage = "encoded" /\ inv.src = "invoice.rs"
    /\ inv.amount_msat = Some(2500000) /\ inv.description # <<>>
    /\ inv.hrp = <<108, 110, 98, 99, 50, 53, 48, 48, 110>>
    /\ Len(inv.str) = Len(inv.hrp) + 1 + Len(inv.payload) + 104 + 6
    /\ inv.str[10] = 49


\* --------------------------------- the signed message (SpecInv and Spec)

\* what invoice_decode hashes for key recovery: the prefix bytes and the
\* 5-to-8 repacking, without padding, of the symbols before the signature
Rebuilt(prefix, data_part) == prefix \o convert_bits(data_part, 5, 8, FALSE).out

\* C17: the message the encoder hashes and signs is the prefix bytes followed
\* by the 5-to-8 repacking of the payload symbols that precede the signature,
\* which is the message invoice_decode rebuilds, byte for byte.
C17_SignedMessageIsRebuilt ==
    inv.stage = "encoded" =>
        /\ convert_bits(inv.payload, 5, 8, FALSE).ok
        /\ sign_data(inv.hrp, inv.payload) = Rebuilt(inv.hrp, inv.payload)

\* what Invoice::calculate_signature signs: the prefix, the whole bytes of
\* the payload, and zero bytes up to the next multiple of 8 bytes
C17_InvoiceSignsPaddedMessage ==
    inv.stage = "encoded" =>
        LET signed == sign_data(inv.hrp, inv.payload)
            whole == inv.hrp \o u5_bits_to_bytes(inv.payload)
        IN /\ Len(signed) % 8 = 0 /\ Len(signed) - Len(whole) \in 0..7
           /\ SubSeq(signed, 1, Len(whole)) = whole
           /\ \A i \in (Len(whole) + 1)..Len(signed) : signed[i] = 0

\* invoice_encode signs the message invoice_decode rebuilds from its string
C17_Bolt11SignedMessageIsRebuilt ==
    (RoundTripped /\ dec.res.ok) =>
        LET b == Bech32_decode(wire)
        IN enc.res.preimage = Rebuilt(b.hrp, SubSeq(b.data, 1, Len(b.data) - 104))


\* ---------------------------------- encoding a valid invoice (Spec)

\* a 32-byte payment hash, exactly one 'd' or 'h' (32 bytes), at most one
\* 'x', no other tag, and an amount the decimal-places check lets through
ValidInvoice(a) ==
    /\ OneDescription(a)
    /\ Count(a.tags, 120) <= 1
    /\ \A i \in 1..Len(a.tags) : a.tags[i].tag \in {100, 104, 120}
    /\ ~(a.amount.some /\ TooManyDecimals(a.amount.v))

\* the payload invoice_encode assembles: timestamp, 'p', the tags
PayloadOf(a) ==
    TagLoop(a.tags, 1, encode_timestamp(a.date).out \o tagged_field(112, a.paymenthash).out,
            {}).data

\* C18: invoice_encode returns a string for every valid invoice and valid
\* key, whatever the description length: the 5-to-8 repacking of the
\* payload for signing never fails.
C18_ValidInvoiceEncodes ==
    (pc = "encoded" /\ enc.called /\ ValidInvoice(addr)) =>
        enc.res.ok \/ enc.res.err = "Invalid private key"

\* what invoice_encode does with a valid invoice and key: it returns a
\* string only if the payload is whole bytes followed by fewer than 5 bits,
\* all zero, and fails with the padding error otherwise
C18_EncodesIffPayloadCanonical ==
    (pc = "encoded" /\ enc.called /\ ValidInvoice(addr)
        /\ enc.res.err # "Invalid private key") =>
        /\ enc.res.ok <=> Canonical(PayloadOf(addr))
        /\ ~enc.res.ok => Fails(enc.res, "InvalidPadding")

====
